---- MODULE Spec2Model ----
(***************************************************************************)
(* Design-space enumeration engine of TAT-C (tatc/space.py, tatc/ground.py,*)
(* tatc/mission.py): ranged Constellation / GroundNetwork configurations   *)
(* are expanded into concrete constellations, networks and architectures.  *)
(*                                                                         *)
(* Python values are encoded uniformly as records [k, s]:                  *)
(*   None            [k |-> "none", s |-> <<>>]                            *)
(*   a number n/d    [k |-> "num",  s |-> <<n, d>>]   (reduced fraction)   *)
(*   a string        [k |-> "str",  s |-> <<tag>>]                         *)
(*   a list of ints  [k |-> "list", s |-> <<e1, ..., en>>]                 *)
(*   the float returned by Orbit.get_sso_inclination(a)                    *)
(*                   [k |-> "sso",  s |-> <<a>>]                           *)
(* A raised exception is the value of the field err of a result record.    *)
(***************************************************************************)
EXTENDS Integers, Sequences, FiniteSets, TLC

\* ------------------------------------------------------------------------
\* Bounds of the model
\* ------------------------------------------------------------------------
MaxCount == 2

MaxList == 2

MaxDeltaSat == 4

MaxTemplates == 2

MaxStations == 3

MaxValue == 3

MaxSteps == 4

\* ------------------------------------------------------------------------
\* Values
\* ------------------------------------------------------------------------
RECURSIVE GCD(_, _)
GCD(a, b) == IF b = 0 THEN a ELSE GCD(b, a % b)

NoneV == [k |-> "none", s |-> <<>>]

Num(n) == [k |-> "num", s |-> <<n, 1>>]

Rat(n, d) == LET g == GCD(n, d) IN [k |-> "num", s |-> <<n \div g, d \div g>>]

StrV(t) == [k |-> "str", s |-> <<t>>]

ListV(q) == [k |-> "list", s |-> q]

IsNone(v) == v.k = "none"

IsNumber(v) == v.k \in {"num", "sso"}

IsInt(v) == v.k = "num" /\ v.s[2] = 1

IntOf(v) == v.s[1]

SSO == StrV(0)

RECURSIVE Flatten(_)
Flatten(ss) == IF Len(ss) = 0 THEN <<>> ELSE Head(ss) \o Flatten(Tail(ss))

Range(s) == {s[i] : i \in 1..Len(s)}

SeqsUpTo(S, n) == UNION {[1..m -> S] : m \in 1..n}

\* try: it = iter(x) / except TypeError: it = [x]
IterOrSelf(v) == IF v.k = "list" THEN [i \in 1..Len(v.s) |-> Num(v.s[i])] ELSE <<v>>

\* ------------------------------------------------------------------------
\* Enumerations
\* ------------------------------------------------------------------------
ConstellationType == {"DELTA_HOMOGENOUS", "DELTA_HETEROGENEOUS", "PRECESSING", "AD_HOC", "TRAIN"}

OrbitType == {"KEPLERIAN", "CIRCULAR", "SUN_SYNCHRONOUS"}

AgencyType == {"ACADEMIC", "GOVERNMENT", "COMMERCIAL"}

Upper(str) ==
    CASE str = "delta_homogenous" -> "DELTA_HOMOGENOUS"
      [] str = "train" -> "TRAIN"
      [] str = "sun_synchronous" -> "SUN_SYNCHRONOUS"
      [] str = "government" -> "GOVERNMENT"
      [] str = "Government" -> "GOVERNMENT"
      [] str = "x" -> "X"
      [] str = "max" -> "MAX"
      [] str = "mast" -> "MAST"
      [] str = "rectangular" -> "RECTANGULAR"
      [] OTHER -> str

\* Enum.get: a member or a string matching one case-insensitively, else None
EnumGet(members, key) ==
    IF key \in members THEN key
    ELSE IF Upper(key) \in members THEN Upper(key)
    ELSE "None"

\* ------------------------------------------------------------------------
\* Orbit
\* ------------------------------------------------------------------------
Re100 == 637814

get_semimajor_axis(altitude) == Rat(Re100 + 100 * IntOf(altitude), 100)

get_sso_inclination(altitude) == [k |-> "sso", s |-> <<IntOf(altitude)>>]

NoOrbit ==
    [isNone |-> TRUE, orbitType |-> "None", altitude |-> NoneV, inclination |-> NoneV,
     semimajorAxis |-> NoneV, eccentricity |-> NoneV, periapsisArgument |-> NoneV,
     rightAscensionAscendingNode |-> NoneV, trueAnomaly |-> NoneV, epoch |-> NoneV,
     localSolarTimeAscendingNode |-> NoneV]

Orbit(orbitType, altitude, inclination, semimajorAxis, eccentricity, periapsisArgument, rightAscensionAscendingNode, trueAnomaly, epoch, localSolarTimeAscendingNode) ==
    LET type == EnumGet(OrbitType, orbitType) IN
    [isNone |-> FALSE,
     orbitType |-> type,
     altitude |-> altitude,
     inclination |->
        IF IsNumber(altitude) /\ (inclination = SSO \/ type = "SUN_SYNCHRONOUS")
        THEN get_sso_inclination(altitude) ELSE inclination,
     semimajorAxis |-> semimajorAxis,
     eccentricity |->
        IF type = "CIRCULAR" \/ type = "SUN_SYNCHRONOUS" THEN Num(0)
        ELSE IF type = "KEPLERIAN" /\ IsNone(eccentricity) THEN Num(0)
        ELSE eccentricity,
     periapsisArgument |->
        IF type = "KEPLERIAN" /\ IsNone(periapsisArgument) THEN Num(0)
        ELSE periapsisArgument,
     rightAscensionAscendingNode |-> rightAscensionAscendingNode,
     trueAnomaly |-> trueAnomaly,
     epoch |-> epoch,
     localSolarTimeAscendingNode |-> localSolarTimeAscendingNode]

\* mutant: a string inclination is iterated character by character
OrbitIter_StringByCharacter(self) ==
    LET altitudeIter == IterOrSelf(self.altitude)
        inclinationIter == IF self.inclination.k = "str" THEN <<StrV(1), StrV(1), StrV(2)>> ELSE IterOrSelf(self.inclination)
    IN Flatten([a \in 1..Len(altitudeIter) |->
                [i \in 1..Len(inclinationIter) |->
                    Orbit(self.orbitType, altitudeIter[a], inclinationIter[i],
                          self.semimajorAxis, self.eccentricity, self.periapsisArgument,
                          self.rightAscensionAscendingNode, self.trueAnomaly, self.epoch,
                          self.localSolarTimeAscendingNode)]])

\* Orbit.__iter__: altitude x inclination, a string inclination is one value
OrbitIter(self) ==
    LET altitudeIter == IterOrSelf(self.altitude)
        inclinationIter == IterOrSelf(self.inclination)
    IN Flatten([a \in 1..Len(altitudeIter) |->
                [i \in 1..Len(inclinationIter) |->
                    Orbit(self.orbitType, altitudeIter[a], inclinationIter[i],
                          self.semimajorAxis, self.eccentricity, self.periapsisArgument,
                          self.rightAscensionAscendingNode, self.trueAnomaly, self.epoch,
                          self.localSolarTimeAscendingNode)]])

\* ------------------------------------------------------------------------
\* Satellite: name stands for every field that copy.deepcopy carries over
\* ------------------------------------------------------------------------
Satellite(name, orbit) == [name |-> name, orbit |-> orbit]

\* ------------------------------------------------------------------------
\* Constellation
\* ------------------------------------------------------------------------
IsDelta(type) == type = "DELTA_HOMOGENOUS" \/ type = "DELTA_HETEROGENEOUS"

\* satellites = None is bound = FALSE with an empty sequence; _id = None is id = 0
Constellation(constellationType, numberSatellites, numberPlanes, relativeSpacing, satelliteInterval, orbit, bound, satellites, id) ==
    LET type == EnumGet(ConstellationType, constellationType)
        planes == IF IsNone(numberPlanes) /\ IsDelta(type) THEN Num(1) ELSE numberPlanes
    IN
    [constellationType |-> type,
     numberSatellites |-> numberSatellites,
     numberPlanes |-> planes,
     relativeSpacing |->
        IF IsNone(relativeSpacing) /\ IsNumber(planes) /\ IsDelta(type)
        THEN IF ~orbit.isNone /\ IntOf(planes) > 1
                /\ (orbit.orbitType = "SUN_SYNCHRONOUS" \/ orbit.inclination = SSO)
             THEN Num(1) ELSE Num(0)
        ELSE relativeSpacing,
     satelliteInterval |->
        IF IsNumber(satelliteInterval) THEN StrV(IntOf(satelliteInterval))
        ELSE satelliteInterval,
     orbit |-> orbit,
     bound |-> bound,
     satellites |-> satellites,
     id |-> id]

\* mutant: the test numberPlanes <= numberSatellites is left out
ValidCombination_NoPlaneTest(numberSatellites, numberPlanes, relativeSpacing) ==
    IsNone(relativeSpacing) \/ IsNone(numberPlanes)
        \/ IntOf(relativeSpacing) < IntOf(numberPlanes)

\* mutant: relativeSpacing <= numberPlanes instead of <
ValidCombination_SpacingLeq(numberSatellites, numberPlanes, relativeSpacing) ==
    /\ (IsNone(relativeSpacing) \/ IsNone(numberPlanes)
        \/ IntOf(relativeSpacing) <= IntOf(numberPlanes))
    /\ (IsNone(numberSatellites) \/ IsNone(numberPlanes)
        \/ IntOf(numberPlanes) <= IntOf(numberSatellites))

\* mutant: the operands of the test numberPlanes <= numberSatellites are swapped
ValidCombination_Swapped(numberSatellites, numberPlanes, relativeSpacing) ==
    /\ (IsNone(relativeSpacing) \/ IsNone(numberPlanes)
        \/ IntOf(relativeSpacing) < IntOf(numberPlanes))
    /\ (IsNone(numberSatellites) \/ IsNone(numberPlanes)
        \/ IntOf(numberSatellites) <= IntOf(numberPlanes))

\* the filter of the comprehension in Constellation.__iter__
ValidCombination(numberSatellites, numberPlanes, relativeSpacing) ==
    /\ (IsNone(relativeSpacing) \/ IsNone(numberPlanes)
        \/ IntOf(relativeSpacing) < IntOf(numberPlanes))
    /\ (IsNone(numberSatellites) \/ IsNone(numberPlanes)
        \/ IntOf(numberPlanes) <= IntOf(numberSatellites))

\* Constellation.__iter__
ConstellationIter(self) ==
    IF self.bound THEN <<self>>
    ELSE
    LET numberSatellitesIter == IterOrSelf(self.numberSatellites)
        numberPlanesIter == IterOrSelf(self.numberPlanes)
        relativeSpacingIter == IterOrSelf(self.relativeSpacing)
        satelliteIntervalIter == IterOrSelf(self.satelliteInterval)
        orbitIter == IF self.orbit.isNone THEN <<NoOrbit>> ELSE OrbitIter(self.orbit)
    IN Flatten([n \in 1..Len(numberSatellitesIter) |->
        Flatten([p \in 1..Len(numberPlanesIter) |->
         Flatten([f \in 1..Len(relativeSpacingIter) |->
          Flatten([t \in 1..Len(satelliteIntervalIter) |->
           Flatten([o \in 1..Len(orbitIter) |->
             IF ValidCombination(numberSatellitesIter[n], numberPlanesIter[p],
                                 relativeSpacingIter[f])
             THEN <<Constellation(self.constellationType, numberSatellitesIter[n],
                                  numberPlanesIter[p], relativeSpacingIter[f],
                                  satelliteIntervalIter[t], orbitIter[o], FALSE, <<>>, 0)>>
             ELSE <<>>])])])])])

\* ------------------------------------------------------------------------
\* Results: err = "None" for a normal return, else the exception raised
\* ------------------------------------------------------------------------
Ok(v) == [err |-> "None", val |-> v]

Raise(e) == [err |-> e, val |-> <<>>]

\* the first exception of a sequence of results, else the concatenated values
Collect(rs) ==
    LET bad == {i \in 1..Len(rs) : rs[i].err # "None"} IN
    IF bad = {} THEN Ok(Flatten([i \in 1..Len(rs) |-> rs[i].val]))
    ELSE Raise(rs[CHOOSE i \in bad : \A j \in bad : i <= j].err)

\* ------------------------------------------------------------------------
\* Constellation.generate_delta_orbits
\* Angles are exact fractions of a degree (the code computes them in floats).
\* ------------------------------------------------------------------------
\* math.ceil(self.numberSatellites/self.numberPlanes)
satellitesPerPlane(self) ==
    (IntOf(self.numberSatellites) + IntOf(self.numberPlanes) - 1) \div IntOf(self.numberPlanes)

\* int(satellite / satellitesPerPlane)
plane(self, satellite) == satellite \div satellitesPerPlane(self)

\* (satellite / satellitesPerPlane)*360./self.numberPlanes
DeltaRightAscension(self, satellite) ==
    Rat(satellite * 360, satellitesPerPlane(self) * IntOf(self.numberPlanes))

\* mutant: the position in the plane is not reduced modulo satellitesPerPlane
DeltaTrueAnomaly_NoModulo(self, satellite) ==
    Rat((satellite * IntOf(self.numberPlanes)
            + IntOf(self.relativeSpacing) * plane(self, satellite)) * 360,
        satellitesPerPlane(self) * IntOf(self.numberPlanes))

\* mutant: the relative spacing between planes is left out
DeltaTrueAnomaly_NoSpacing(self, satellite) ==
    Rat((satellite % satellitesPerPlane(self)) * IntOf(self.numberPlanes) * 360,
        satellitesPerPlane(self) * IntOf(self.numberPlanes))

\* ((satellite % satellitesPerPlane)*self.numberPlanes
\*    + self.relativeSpacing*plane)*360./(satellitesPerPlane*self.numberPlanes)
DeltaTrueAnomaly(self, satellite) ==
    Rat(((satellite % satellitesPerPlane(self)) * IntOf(self.numberPlanes)
            + IntOf(self.relativeSpacing) * plane(self, satellite)) * 360,
        satellitesPerPlane(self) * IntOf(self.numberPlanes))

\* mutant: eccentricity and periapsis argument are not handed over
DeltaOrbit_NoElements(self, satellite) ==
    Orbit("KEPLERIAN", NoneV, self.orbit.inclination,
          get_semimajor_axis(self.orbit.altitude), NoneV, NoneV,
          DeltaRightAscension(self, satellite), DeltaTrueAnomaly(self, satellite), NoneV, NoneV)

\* Orbit(orbitType="KEPLERIAN", ...) of generate_delta_orbits
DeltaOrbit(self, satellite) ==
    Orbit("KEPLERIAN", NoneV, self.orbit.inclination,
          get_semimajor_axis(self.orbit.altitude), self.orbit.eccentricity,
          self.orbit.periapsisArgument, DeltaRightAscension(self, satellite),
          DeltaTrueAnomaly(self, satellite), NoneV, NoneV)

generate_delta_orbits(self) ==
    \* range(self.numberSatellites)
    IF ~IsInt(self.numberSatellites) THEN Raise("TypeError")
    ELSE IF IntOf(self.numberSatellites) <= 0 THEN Ok(<<>>)
    \* self.numberSatellites/self.numberPlanes
    ELSE IF ~IsInt(self.numberPlanes) THEN Raise("TypeError")
    ELSE IF IntOf(self.numberPlanes) = 0 THEN Raise("ZeroDivisionError")
    \* self.orbit.inclination
    ELSE IF self.orbit.isNone THEN Raise("AttributeError")
    \* re + altitude
    ELSE IF ~IsInt(self.orbit.altitude) THEN Raise("TypeError")
    \* (...)*self.numberPlanes + self.relativeSpacing*plane
    ELSE IF ~IsInt(self.relativeSpacing) THEN Raise("TypeError")
    ELSE Ok([i \in 1..IntOf(self.numberSatellites) |-> DeltaOrbit(self, i - 1)])

\* ------------------------------------------------------------------------
\* Constellation.generate_constellations
\* ------------------------------------------------------------------------
\* itertools.combinations_with_replacement(range(1, n+1), r), as index tuples
RECURSIVE CombinationsWithReplacementFrom(_, _, _)
CombinationsWithReplacementFrom(lo, n, r) ==
    IF r = 0 THEN << <<>> >>
    ELSE Flatten([d \in 1..(n - lo + 1) |->
            LET rest == CombinationsWithReplacementFrom(lo + d - 1, n, r - 1)
            IN [j \in 1..Len(rest) |-> <<lo + d - 1>> \o rest[j]]])

combinations_with_replacement(n, r) == CombinationsWithReplacementFrom(1, n, r)

\* selectedSatellites[i].orbit = orbit for i, orbit in enumerate(orbits)
AssignOrbits(selected, orbits) ==
    IF Len(orbits) > Len(selected) THEN Raise("IndexError")
    ELSE Ok([i \in 1..Len(selected) |->
                IF i <= Len(orbits) THEN Satellite(selected[i].name, orbits[i])
                ELSE selected[i]])

\* body of the inner loop of the DELTA_HOMOGENOUS branch
HomogeneousStep(self, constellation, satellite) ==
    \* [copy.deepcopy(satellite) for i in range(constellation.numberSatellites)]
    IF ~IsInt(constellation.numberSatellites) THEN Raise("TypeError")
    ELSE
    LET n == IntOf(constellation.numberSatellites)
        selectedSatellites == [i \in 1..(IF n > 0 THEN n ELSE 0) |-> satellite]
        orbits == generate_delta_orbits(self)
    IN  IF orbits.err # "None" THEN Raise(orbits.err)
        ELSE LET assigned == AssignOrbits(selectedSatellites, orbits.val) IN
             IF assigned.err # "None" THEN Raise(assigned.err)
             ELSE Ok(<<Constellation(constellation.constellationType,
                                     constellation.numberSatellites,
                                     constellation.numberPlanes,
                                     constellation.relativeSpacing, NoneV,
                                     constellation.orbit, TRUE, assigned.val, 0)>>)

\* body of the inner loop of the DELTA_HETEROGENEOUS branch
HeterogeneousStep(self, constellation, combinations) ==
    LET selectedSatellites == combinations
        orbits == generate_delta_orbits(self)
    IN  IF orbits.err # "None" THEN Raise(orbits.err)
        ELSE LET assigned == AssignOrbits(selectedSatellites, orbits.val) IN
             IF assigned.err # "None" THEN Raise(assigned.err)
             \* constellations.append(constellationType=..., ...): list.append
             \* takes no keyword arguments
             ELSE Raise("TypeError")

HeterogeneousForm(self, constellation, satellites) ==
    \* itertools.combinations_with_replacement(satellites, numberSatellites)
    IF ~IsInt(constellation.numberSatellites) THEN Raise("TypeError")
    ELSE IF IntOf(constellation.numberSatellites) < 0 THEN Raise("ValueError")
    ELSE
    LET combos == combinations_with_replacement(Len(satellites),
                                                IntOf(constellation.numberSatellites))
    IN Collect([c \in 1..Len(combos) |->
            HeterogeneousStep(self, constellation,
                [i \in 1..Len(combos[c]) |-> satellites[combos[c][i]]])])

generate_constellations(self, satellites) ==
    IF self.constellationType = "DELTA_HOMOGENOUS" THEN
        LET forms == ConstellationIter(self) IN
        Collect(Flatten([c \in 1..Len(forms) |->
                    [t \in 1..Len(satellites) |->
                        HomogeneousStep(self, forms[c], satellites[t])]]))
    ELSE IF self.constellationType = "DELTA_HETEROGENEOUS" THEN
        LET forms == ConstellationIter(self) IN
        Collect([c \in 1..Len(forms) |-> HeterogeneousForm(self, forms[c], satellites)])
    ELSE Raise("NotImplementedError")

\* ------------------------------------------------------------------------
\* Object identity: an object is named by the step that created it
\* ------------------------------------------------------------------------
Ref(site, entry, form, template, member) ==
    [site |-> site, entry |-> entry, form |-> form, template |-> template, member |-> member]

\* the object satellites[t] of the list handed to generate_constellations
TemplateRef(t) == Ref("satellites", 0, 0, t, 0)

\* mutant: the template itself is selected for every member
deepcopy_SameObject(entry, c, t, i) == TemplateRef(t)

\* copy.deepcopy(satellite) for member i of the pair (form c, template t) in
\* the generate_constellations call number entry: a new object each time
deepcopy(entry, c, t, i) == Ref("copy.deepcopy", entry, c, t, i)

\* the satellite objects in selectedSatellites of each constellation that
\* generate_constellations returns, and the orbit objects of
\* self.generate_delta_orbits() assigned to them
MemberObjects(self, satellites, entry) ==
    IF self.constellationType = "DELTA_HOMOGENOUS" /\ generate_constellations(self, satellites).err = "None"
    THEN LET forms == ConstellationIter(self) IN
         Flatten([c \in 1..Len(forms) |->
            [t \in 1..Len(satellites) |->
                LET n == IntOf(forms[c].numberSatellites) IN
                [satellites |-> [i \in 1..n |-> deepcopy(entry, c, t, i)],
                 orbits |-> [i \in 1..n |-> Ref("generate_delta_orbits", entry, c, t, i)]]]])
    ELSE <<>>

\* the list satellites after generate_constellations: selectedSatellites[i].orbit
\* = orbit writes to the object selectedSatellites[i], the last write staying
TemplatesAfter(self, satellites, entry) ==
    LET members == MemberObjects(self, satellites, entry)
        orbits == generate_delta_orbits(self)
    IN  [t \in 1..Len(satellites) |->
            IF \E k \in 1..Len(members) : \E i \in 1..Len(members[k].satellites) : members[k].satellites[i] = TemplateRef(t)
            THEN Satellite(satellites[t].name, orbits.val[Len(orbits.val)])
            ELSE satellites[t]]

\* ------------------------------------------------------------------------
\* Agency, GroundStation, GroundNetwork
\* ------------------------------------------------------------------------
NoAgency == [isNone |-> TRUE, agencyType |-> "None"]

\* AgencyType.get(key)
AgencyTypeGet(key) ==
    IF key \in AgencyType THEN key
    ELSE IF Upper(key) \in AgencyType THEN Upper(key)
    ELSE "None"

Agency(agencyType) == [isNone |-> FALSE, agencyType |-> AgencyTypeGet(agencyType)]

\* name stands for the identity and the remaining fields of the station
GroundStation(name, agency) == [name |-> name, agency |-> agency]

\* groundStations = None is bound = FALSE with an empty sequence; _id = None is id = 0
GroundNetwork(agency, numberStations, bound, groundStations, id) ==
    [agency |-> agency, numberStations |-> numberStations, bound |-> bound,
     groundStations |-> groundStations, id |-> id]

\* GroundNetwork.__iter__
GroundNetworkIter(self) ==
    IF self.bound THEN <<self>>
    ELSE LET numberStationsIter == IterOrSelf(self.numberStations) IN
         [i \in 1..Len(numberStationsIter) |->
            GroundNetwork(self.agency, numberStationsIter[i], FALSE, <<>>, 0)]

\* the condition of the validStations comprehension
ValidStation(network, station) ==
    \/ network.agency.isNone
    \/ (~station.agency.isNone /\ station.agency.agencyType = network.agency.agencyType)

\* itertools.combinations(range(lo, n+1), r), as index tuples
RECURSIVE CombinationsFrom(_, _, _)
CombinationsFrom(lo, n, r) ==
    IF r = 0 THEN << <<>> >>
    ELSE Flatten([d \in 1..(n - lo + 1) |->
            LET rest == CombinationsFrom(lo + d, n, r - 1)
            IN [j \in 1..Len(rest) |-> <<lo + d - 1>> \o rest[j]]])

\* mutant: combinations in which a station may be repeated
combinations_Repeating(n, r) == combinations_with_replacement(n, r)

combinations(n, r) == CombinationsFrom(1, n, r)

\* body of the loop "for network in self" of generate_networks
NetworksOf(network, groundStations) ==
    LET validStations == SelectSeq(groundStations, LAMBDA station : ValidStation(network, station)) IN
    \* itertools.combinations(validStations, network.numberStations)
    IF ~IsInt(network.numberStations) THEN Raise("TypeError")
    ELSE IF IntOf(network.numberStations) < 0 THEN Raise("ValueError")
    ELSE LET combos == combinations(Len(validStations), IntOf(network.numberStations)) IN
         Ok([c \in 1..Len(combos) |->
                GroundNetwork(network.agency, network.numberStations, TRUE,
                              [i \in 1..Len(combos[c]) |-> validStations[combos[c][i]]], 0)])

generate_networks(self, groundStations) ==
    LET forms == GroundNetworkIter(self) IN
    Collect([n \in 1..Len(forms) |-> NetworksOf(forms[n], groundStations)])

\* ------------------------------------------------------------------------
\* DesignSpace, Architecture
\* ------------------------------------------------------------------------
DesignSpace(constellations, satellites, groundNetworks, groundStations) ==
    [constellations |-> constellations, satellites |-> satellites,
     groundNetworks |-> groundNetworks, groundStations |-> groundStations]

Architecture(constellation, groundNetwork) ==
    [constellation |-> constellation, groundNetwork |-> groundNetwork]

\* Entity.__eq__ between two different objects: equal non-null identifiers
EntityEq(a, b) == a.id # 0 /\ a.id = b.id

\* set().union(*lists): an element equal to one already in the set is dropped
RECURSIVE SetUnion(_)
SetUnion(entities) ==
    IF Len(entities) = 0 THEN <<>>
    ELSE LET n == Len(entities)
             front == SetUnion(SubSeq(entities, 1, n - 1))
         IN IF \E i \in 1..Len(front) : EntityEq(front[i], entities[n])
            THEN front ELSE Append(front, entities[n])

\* the members of set().union(iter(i) for i in self.constellations)
ConstellationForms(self) ==
    SetUnion(Flatten([i \in 1..Len(self.constellations) |-> ConstellationIter(self.constellations[i])]))

\* the members of set().union(iter(i) for i in self.groundNetworks)
GroundNetworkForms(self) ==
    SetUnion(Flatten([i \in 1..Len(self.groundNetworks) |-> GroundNetworkIter(self.groundNetworks[i])]))

\* the orders in which a set of the members of s can be iterated
SetOrders(s) ==
    {[i \in 1..Len(s) |-> s[f[i]]] :
        f \in {g \in [1..Len(s) -> 1..Len(s)] : \A i, j \in 1..Len(s) : g[i] = g[j] => i = j}}

\* mutant: an entry whose generation fails is left out
generate_architectures_SkipFailed(self, constellationsIter, groundNetworksIter) ==
    LET generated == [i \in 1..Len(constellationsIter) |-> generate_constellations(constellationsIter[i], self.satellites)]
        networks == [i \in 1..Len(groundNetworksIter) |-> generate_networks(groundNetworksIter[i], self.groundStations)]
    IN  Ok(Flatten([c \in 1..Len(generated) |->
                IF generated[c].err # "None" THEN <<>>
                ELSE Flatten([g \in 1..Len(networks) |->
                        IF networks[g].err # "None" THEN <<>>
                        ELSE <<Architecture(generated[c].val, networks[g].val)>>])]))

\* DesignSpace.generate_architectures, the two sets being iterated in the
\* orders constellationsIter and groundNetworksIter
generate_architectures(self, constellationsIter, groundNetworksIter) ==
    LET generated == Collect([i \in 1..Len(constellationsIter) |->
            LET r == generate_constellations(constellationsIter[i], self.satellites)
            IN IF r.err = "None" THEN Ok(<<r.val>>) ELSE r])
        networks == Collect([i \in 1..Len(groundNetworksIter) |->
            LET r == generate_networks(groundNetworksIter[i], self.groundStations)
            IN IF r.err = "None" THEN Ok(<<r.val>>) ELSE r])
    IN  IF generated.err # "None" THEN Raise(generated.err)
        ELSE IF networks.err # "None" THEN Raise(networks.err)
        ELSE Ok(Flatten([c \in 1..Len(generated.val) |->
                    [g \in 1..Len(networks.val) |->
                        Architecture(generated.val[c], networks.val[g])]]))

\* the satellite and orbit objects reachable from each architecture of
\* generate_architectures: itertools.product pairs the one list that
\* generate_constellations returned for an entry with every list of networks
ArchitectureObjects(self, constellationsIter, groundNetworksIter) ==
    IF generate_architectures(self, constellationsIter, groundNetworksIter).err # "None" THEN <<>>
    ELSE Flatten([c \in 1..Len(constellationsIter) |->
            [g \in 1..Len(groundNetworksIter) |->
                LET members == MemberObjects(constellationsIter[c], self.satellites, c) IN
                [satellites |-> Flatten([k \in 1..Len(members) |-> members[k].satellites]),
                 orbits |-> Flatten([k \in 1..Len(members) |-> members[k].orbits])]]])

\* self.satellites after the generate_constellations calls 1..k
RECURSIVE TemplatesAfterAll(_, _, _)
TemplatesAfterAll(self, constellationsIter, k) ==
    IF k = 0 THEN self.satellites
    ELSE TemplatesAfter(constellationsIter[k], TemplatesAfterAll(self, constellationsIter, k - 1), k)

\* ------------------------------------------------------------------------
\* QuantitativeRange (tatc/util.py); floats are exact fractions
\* ------------------------------------------------------------------------
\* a fraction n/d whose denominator may be negative
Fraction(n, d) == IF d < 0 THEN Rat(-n, -d) ELSE Rat(n, d)

RatAdd(a, b) == Rat(a.s[1] * b.s[2] + b.s[1] * a.s[2], a.s[2] * b.s[2])

RatSub(a, b) == Rat(a.s[1] * b.s[2] - b.s[1] * a.s[2], a.s[2] * b.s[2])

RatMul(a, b) == Rat(a.s[1] * b.s[1], a.s[2] * b.s[2])

RatDiv(a, b) == Fraction(a.s[1] * b.s[2], a.s[2] * b.s[1])

\* math.floor
RatFloor(a) == a.s[1] \div a.s[2]

RatLess(a, b) == a.s[1] * b.s[2] < b.s[1] * a.s[2]

\* the truth value of "if x:" for None and numbers
Truthy(v) == ~IsNone(v) /\ v.s[1] # 0

QuantitativeRange(minValue, maxValue, numberSteps, stepSize) ==
    [minValue |-> minValue, maxValue |-> maxValue,
     numberSteps |-> numberSteps, stepSize |-> stepSize]

\* mutant: the end point is excluded, as with endpoint=False
linspace_NoEndpoint(start, stop, num) ==
    IF num < 0 THEN Raise("ValueError")
    ELSE Ok([i \in 1..num |-> RatAdd(start, RatMul(Num(i - 1), RatDiv(RatSub(stop, start), Num(num))))])

\* mutant: the samples are spaced over num intervals, one sample too many
linspace_ExtraSample(start, stop, num) ==
    IF num < 0 THEN Raise("ValueError")
    ELSE Ok([i \in 1..(num + 1) |-> RatAdd(start, RatMul(Num(i - 1), RatDiv(RatSub(stop, start), Num(num))))])

\* np.linspace(start, stop, num): num evenly spaced samples, end points included
linspace(start, stop, num) ==
    IF num < 0 THEN Raise("ValueError")
    ELSE IF num = 1 THEN Ok(<<start>>)
    ELSE Ok([i \in 1..num |->
                RatAdd(start, RatMul(Num(i - 1), RatDiv(RatSub(stop, start), Num(num - 1))))])

\* QuantitativeRange.__iter__
QuantitativeRangeIter(self) ==
    IF Truthy(self.numberSteps) THEN
        linspace(self.minValue, self.maxValue, IntOf(self.numberSteps))
    ELSE IF Truthy(self.stepSize) THEN
        LET numberSteps == 1 + RatFloor(RatDiv(RatSub(self.maxValue, self.minValue), self.stepSize))
            maxValue == RatAdd(self.minValue, RatMul(Num(numberSteps - 1), self.stepSize))
        IN linspace(self.minValue, maxValue, numberSteps)
    ELSE Ok(<<self.minValue, self.maxValue>>)

\* ------------------------------------------------------------------------
\* Documents and entities of the JSON codec (tatc/util.py)
\* A str is Text(t) when t is not JSON text and JsonText(doc) when it is the
\* JSON text of doc; a dict and the attributes of an object are functions
\* from keys to values; Member(cls, m) is member m of enumeration cls.
\* ------------------------------------------------------------------------
Text(t) == [k |-> "string", s |-> <<t>>]

JsonText(doc) == [k |-> "json", s |-> <<doc>>]

Bool(b) == [k |-> "bool", s |-> <<b>>]

Array(q) == [k |-> "array", s |-> q]

Dict(f) == [k |-> "dict", s |-> <<f>>]

Member(cls, m) == [k |-> "enum", s |-> <<cls, m>>]

Object(cls, f) == [k |-> "entity", s |-> <<cls, f>>]

ClassOf(v) == v.s[1]

Attrs(v) == v.s[2]

\* bool(v)
IsTrue(v) ==
    CASE v.k = "none" -> FALSE
      [] v.k = "bool" -> v.s[1]
      [] v.k = "num" -> v.s[1] # 0
      [] v.k = "string" -> v.s[1] # ""
      [] v.k = "array" -> Len(v.s) > 0
      [] v.k = "dict" -> DOMAIN v.s[1] # {}
      [] OTHER -> TRUE

\* isinstance(v, str): an enumeration member is a str as well
IsStr(v) == v.k \in {"string", "json", "enum"}

\* isinstance(v, Number): bool is a Number
IsNumeric(v) == v.k \in {"num", "bool"}

\* d.get(key, default)
Get(d, key, default) == IF key \in DOMAIN d.s[1] THEN d.s[1][key] ELSE default

\* json_dict[new] = json_dict.pop(old), when json_dict.get(old) is true
Rename(f, old, new) ==
    IF old \in DOMAIN f /\ IsTrue(f[old])
    THEN [key \in (DOMAIN f \ {old}) \cup {new} |-> IF key = new THEN f[old] ELSE f[key]]
    ELSE f

RECURSIVE to_dict(_)
RECURSIVE recursive_normalize(_)
recursive_normalize(d) ==
    IF d.k # "dict" THEN (IF d.k = "entity" THEN to_dict(d) ELSE d)
    ELSE LET f == d.s[1]
             keep == {key \in DOMAIN f : ~IsNone(f[key])}
         IN Dict([key \in keep |->
                IF f[key].k = "entity" THEN to_dict(f[key])
                ELSE IF f[key].k = "array"
                     THEN Array([i \in 1..Len(f[key].s) |-> recursive_normalize(f[key].s[i])])
                ELSE recursive_normalize(f[key])])

\* Entity.to_dict
to_dict(self) ==
    LET json_dict == recursive_normalize(Dict(Attrs(self))).s[1]
    IN Dict(Rename(Rename(json_dict, "_id", "@id"), "_type", "@type"))

\* ------------------------------------------------------------------------
\* Enumeration parsing on document values
\* ------------------------------------------------------------------------
\* the enumeration classes and their members
Members(E) ==
    CASE E = "AgencyType" -> AgencyType
      [] E = "CommunicationBand" -> {"VHF", "UHF", "L", "S", "C", "X", "KU", "KA", "LASER"}
      [] E = "ObjectiveType" -> {"MAX", "MIN", "TAR"}
      [] E = "MountType" -> {"BODY", "MAST", "PROBE"}
      [] E = "OrientationConvention" -> {"XYZ", "SIDE_LOOK"}
      [] E = "SensorGeometry" -> {"CONICAL", "RECTANGULAR"}
      [] E = "ScanTechnique" -> {"PUSHBROOM", "WHISKBROOM", "STEP_AND_STARE"}

\* a map object, which yields q when it is iterated
MapObject(q) == [k |-> "map", s |-> q]

\* try: return cls(key.upper()) / except: return None
ParseMember(cls, key) ==
    IF key.k = "string"
    THEN (IF Upper(key.s[1]) \in Members(cls) THEN Member(cls, Upper(key.s[1])) ELSE NoneV)
    ELSE IF key.k = "enum"
    THEN (IF key.s[2] \in Members(cls) THEN Member(cls, key.s[2]) ELSE NoneV)
    ELSE NoneV

RECURSIVE AgencyType_get(_)
\* AgencyType.get on a document value
AgencyType_get(key) ==
    IF key.k = "enum" /\ key.s[1] = "AgencyType" THEN key
    ELSE IF key.k = "array" THEN MapObject([i \in 1..Len(key.s) |-> AgencyType_get(key.s[i])])
    ELSE ParseMember("AgencyType", key)

RECURSIVE CommunicationBand_get(_)
CommunicationBand_get(key) ==
    IF key.k = "enum" /\ key.s[1] = "CommunicationBand" THEN key
    ELSE IF key.k = "array" THEN Array([i \in 1..Len(key.s) |-> CommunicationBand_get(key.s[i])])
    ELSE ParseMember("CommunicationBand", key)

RECURSIVE ObjectiveType_get(_)
ObjectiveType_get(key) ==
    IF key.k = "enum" /\ key.s[1] = "ObjectiveType" THEN key
    ELSE IF key.k = "array" THEN Array([i \in 1..Len(key.s) |-> ObjectiveType_get(key.s[i])])
    ELSE ParseMember("ObjectiveType", key)

RECURSIVE EnumEntity_get(_, _)
\* get of an enumeration derived from EnumEntity
EnumEntity_get(cls, key) ==
    IF key.k = "enum" /\ key.s[1] = cls THEN key
    ELSE IF key.k = "array" THEN Array([i \in 1..Len(key.s) |-> EnumEntity_get(cls, key.s[i])])
    ELSE IF key.k \in {"string", "enum"}
    THEN LET m == EnumGet(Members(cls), key.s[Len(key.s)]) IN IF m = "None" THEN NoneV ELSE Member(cls, m)
    ELSE NoneV

\* ------------------------------------------------------------------------
\* Entity classes of the codec: constructors
\* ------------------------------------------------------------------------
Entity__init__(_id, _type) == Object("Entity", [_id |-> _id, _type |-> _type])

Agency__init__(agencyType, name, acronym, _id) ==
    Object("Agency", [name |-> name,
                      acronym |-> IF IsTrue(acronym) THEN acronym ELSE name,
                      agencyType |-> AgencyType_get(agencyType),
                      _id |-> _id, _type |-> Text("Agency")])

\* convention == "XYZ"
IsXYZ(convention) == convention.k \in {"string", "enum"} /\ convention.s[Len(convention.s)] = "XYZ"

Orientation__init__(convention, xRotation, yRotation, zRotation, sideLookAngle, _id) ==
    LET default == IF IsXYZ(convention) THEN Num(0) ELSE NoneV IN
    Object("Orientation", [convention |-> EnumEntity_get("OrientationConvention", convention),
                           xRotation |-> IF ~IsNone(xRotation) THEN xRotation ELSE default,
                           yRotation |-> IF ~IsNone(yRotation) THEN yRotation ELSE default,
                           zRotation |-> IF ~IsNone(zRotation) THEN zRotation ELSE default,
                           sideLookAngle |-> sideLookAngle,
                           _id |-> _id, _type |-> Text("Orientation")])

FieldOfView__init__(sensorGeometry, fullConeAngle, alongTrackFieldOfView, crossTrackFieldOfView, _id) ==
    Object("FieldOfView", [sensorGeometry |-> EnumEntity_get("SensorGeometry", sensorGeometry),
                           fullConeAngle |-> fullConeAngle,
                           alongTrackFieldOfView |-> alongTrackFieldOfView,
                           crossTrackFieldOfView |-> crossTrackFieldOfView,
                           _id |-> _id, _type |-> Text("FieldOfView")])

\* maxNFE stands for the twelve fields that are stored and read back as given
SearchParameters__init__(maxNFE, epsilons, _id) ==
    Object("SearchParameters", [maxNFE |-> maxNFE, epsilons |-> epsilons,
                                _id |-> _id, _type |-> Text("SearchParameters")])

\* Orientation() and FieldOfView(), the default arguments
DefaultOrientation == Orientation__init__(Text("XYZ"), NoneV, NoneV, NoneV, NoneV, NoneV)

DefaultFieldOfView == FieldOfView__init__(Text("CONICAL"), Num(30), NoneV, NoneV, NoneV)

\* mass stands for mass, volume, power and dataRate
Instrument__init__(name, acronym, agency, mass, orientation, fieldOfView, techReadinessLevel, mountType, _id, _type) ==
    Object("Instrument", [name |-> name,
                          acronym |-> IF IsTrue(acronym) THEN acronym ELSE name,
                          agency |-> agency, mass |-> mass,
                          orientation |-> orientation, fieldOfView |-> fieldOfView,
                          techReadinessLevel |-> techReadinessLevel,
                          mountType |-> EnumEntity_get("MountType", mountType),
                          _id |-> _id, _type |-> _type])

\* fNumber stands for the numeric fields of the scanner
OpticalScanner__init__(name, acronym, agency, mass, orientation, fieldOfView, scanTechnique, fNumber, techReadinessLevel, mountType, _id) ==
    Object("OpticalScanner", [name |-> name,
                              acronym |-> IF IsTrue(acronym) THEN acronym ELSE name,
                              agency |-> agency, mass |-> mass,
                              orientation |-> orientation, fieldOfView |-> fieldOfView,
                              scanTechnique |-> EnumEntity_get("ScanTechnique", scanTechnique),
                              fNumber |-> fNumber,
                              techReadinessLevel |-> techReadinessLevel,
                              mountType |-> EnumEntity_get("MountType", mountType),
                              _id |-> _id, _type |-> Text("OpticalScanner")])

\* pulseWidth stands for the numeric fields of the radar; fieldOfView=None
SyntheticApertureRadar__init__(name, acronym, agency, mass, orientation, pulseWidth, techReadinessLevel, mountType, _id) ==
    Object("SyntheticApertureRadar", [name |-> name,
                              acronym |-> IF IsTrue(acronym) THEN acronym ELSE name,
                              agency |-> agency, mass |-> mass,
                              orientation |-> orientation, fieldOfView |-> NoneV,
                              pulseWidth |-> pulseWidth,
                              techReadinessLevel |-> techReadinessLevel,
                              mountType |-> EnumEntity_get("MountType", mountType),
                              _id |-> _id, _type |-> Text("SyntheticApertureRadar")])

\* ------------------------------------------------------------------------
\* Entity classes of the codec: from_dict and from_json
\* A result holds the returned value as a sequence of one element.
\* ------------------------------------------------------------------------
RECURSIVE from_json(_, _)

Entity_from_dict(d) == Ok(<<Entity__init__(Get(d, "@id", NoneV), Text("Entity"))>>)

Agency_from_dict(d) ==
    Ok(<<Agency__init__(Get(d, "agencyType", NoneV), Get(d, "name", NoneV),
                        Get(d, "acronym", NoneV), Get(d, "@id", NoneV))>>)

\* the rotations are read under "xRotation ", "yRotation ", "zRotation "
Orientation_from_dict(d) ==
    Ok(<<Orientation__init__(Get(d, "convention", Text("XYZ")), Get(d, "xRotation ", NoneV),
                             Get(d, "yRotation ", NoneV), Get(d, "zRotation ", NoneV),
                             Get(d, "sideLookAngle", NoneV), Get(d, "@id", NoneV))>>)

FieldOfView_from_dict(d) ==
    IF IsNumeric(d)
    THEN Ok(<<FieldOfView__init__(Text("CONICAL"), d, NoneV, NoneV, NoneV)>>)
    ELSE IF d.k = "array" /\ Len(d.s) = 2 /\ IsNumeric(d.s[1]) /\ IsNumeric(d.s[2])
    THEN Ok(<<FieldOfView__init__(Text("RECTANGULAR"), Num(30), d.s[2], d.s[1], NoneV)>>)
    ELSE IF d.k # "dict" THEN Raise("AttributeError")
    ELSE Ok(<<FieldOfView__init__(Get(d, "sensorGeometry", Text("CONICAL")),
                                  Get(d, "fullConeAngle", Num(30)),
                                  Get(d, "alongTrackFieldOfView", NoneV),
                                  Get(d, "crossTrackFieldOfView", NoneV),
                                  Get(d, "@id", NoneV))>>)

\* "@id" is not read
SearchParameters_from_dict(d) ==
    Ok(<<SearchParameters__init__(Get(d, "maxNFE", NoneV), Get(d, "epsilons", NoneV), NoneV)>>)

Instrument_from_dict(d) ==
    LET type == Get(d, "@type", Text("Instrument"))
        agency == from_json("Agency", Get(d, "agency", NoneV))
        orientation == from_json("Orientation", Get(d, "orientation", DefaultOrientation))
        fieldOfView == from_json("FieldOfView", Get(d, "fieldOfView", DefaultFieldOfView))
    IN  IF type = Text("Instrument")
        THEN LET args == Collect(<<agency, orientation, fieldOfView>>) IN
             IF args.err # "None" THEN args
             ELSE Ok(<<Instrument__init__(Get(d, "name", NoneV), Get(d, "acronym", NoneV),
                                          args.val[1], Get(d, "mass", NoneV), args.val[2], args.val[3],
                                          Get(d, "techReadinessLevel", Num(9)),
                                          Get(d, "mountType", Text("BODY")),
                                          Get(d, "@id", NoneV), Text("Instrument"))>>)
        ELSE IF type = Text("OpticalScanner")
        THEN LET args == Collect(<<agency, orientation, fieldOfView>>) IN
             IF args.err # "None" THEN args
             ELSE Ok(<<OpticalScanner__init__(Get(d, "name", NoneV), Get(d, "acronym", NoneV),
                                              args.val[1], Get(d, "mass", NoneV), args.val[2], args.val[3],
                                              Get(d, "scanTechnique", NoneV), Get(d, "fNumber", NoneV),
                                              Get(d, "techReadinessLevel", Num(9)),
                                              Get(d, "mountType", Text("BODY")),
                                              Get(d, "@id", NoneV))>>)
        ELSE IF type = Text("SyntheticApertureRadar")
        THEN LET args == Collect(<<agency, orientation>>) IN
             IF args.err # "None" THEN args
             ELSE Ok(<<SyntheticApertureRadar__init__(Get(d, "name", NoneV), Get(d, "acronym", NoneV),
                                              args.val[1], Get(d, "mass", NoneV), args.val[2],
                                              Get(d, "pulseWidth", NoneV),
                                              Get(d, "techReadinessLevel", Num(9)),
                                              Get(d, "mountType", Text("BODY")),
                                              Get(d, "@id", NoneV))>>)
        ELSE Ok(<<NoneV>>)

\* ------------------------------------------------------------------------
\* DesignSpace as an entity of the codec (tatc/mission.py)
\* ------------------------------------------------------------------------
\* the five collections and the class of their elements
CollectionClass ==
    [constellations |-> "Constellation", launchers |-> "LaunchVehicle", satellites |-> "Satellite",
     groundNetworks |-> "GroundNetwork", groundStations |-> "GroundStation"]

\* Constellation.from_dict, LaunchVehicle.from_dict, Satellite.from_dict,
\* GroundNetwork.from_dict, GroundStation.from_dict: name stands for the
\* fields that are read with d.get and handed to the constructor
Element_from_dict(T, d) ==
    Ok(<<Object(T, [name |-> Get(d, "name", NoneV), _id |-> Get(d, "@id", NoneV), _type |-> Text(T)])>>)

\* mutant: the argument is stored as it is given
AsList_AsGiven(T, v) == v

\* if isinstance(v, T): [v] else: v
AsList(T, v) == IF v.k = "entity" /\ ClassOf(v) = T THEN Array(<<v>>) ELSE v

DesignSpace__init__(constellations, launchers, satellites, groundNetworks, groundStations, _id) ==
    Object("DesignSpace",
           [constellations |-> AsList("Constellation", constellations),
            launchers |-> AsList("LaunchVehicle", launchers),
            satellites |-> AsList("Satellite", satellites),
            groundNetworks |-> AsList("GroundNetwork", groundNetworks),
            groundStations |-> AsList("GroundStation", groundStations),
            _id |-> _id, _type |-> Text("DesignSpace")])

DesignSpace_from_dict(d) ==
    LET args == Collect(<<from_json("Constellation", Get(d, "constellations", NoneV)),
                          from_json("LaunchVehicle", Get(d, "launchers", NoneV)),
                          from_json("Satellite", Get(d, "satellites", NoneV)),
                          from_json("GroundNetwork", Get(d, "groundNetworks", NoneV)),
                          from_json("GroundStation", Get(d, "groundStations", NoneV))>>)
    IN  IF args.err # "None" THEN args
        ELSE Ok(<<DesignSpace__init__(args.val[1], args.val[2], args.val[3], args.val[4], args.val[5], Get(d, "@id", NoneV))>>)

\* the classes of the codec model; the scanner and the radar inherit
\* Instrument.from_dict
Classes == {"Entity", "Agency", "Orientation", "FieldOfView", "SearchParameters", "Instrument", "OpticalScanner", "SyntheticApertureRadar"}

\* cls.from_dict(json_doc); d.get of a value that is no dict raises
from_dict(cls, d) ==
    IF cls = "FieldOfView" THEN FieldOfView_from_dict(d)
    ELSE IF d.k # "dict" THEN Raise("AttributeError")
    ELSE CASE cls = "Entity" -> Entity_from_dict(d)
           [] cls = "Agency" -> Agency_from_dict(d)
           [] cls = "Orientation" -> Orientation_from_dict(d)
           [] cls = "SearchParameters" -> SearchParameters_from_dict(d)
           [] cls \in {"Instrument", "OpticalScanner", "SyntheticApertureRadar"} -> Instrument_from_dict(d)
           [] cls \in {CollectionClass[key] : key \in DOMAIN CollectionClass} -> Element_from_dict(cls, d)
           [] cls = "DesignSpace" -> DesignSpace_from_dict(d)

\* the results of a list comprehension: the first exception, else the list
CollectArray(rs) == LET c == Collect(rs) IN IF c.err # "None" THEN c ELSE Ok(<<Array(c.val)>>)

\* json.loads(s): the document of JSON text, ValueError for any other str
json_loads(s) == IF s.k = "json" THEN Ok(<<s.s[1]>>) ELSE Raise("ValueError")

\* Entity.from_json
from_json(cls, json_doc) ==
    LET loaded == IF IsStr(json_doc) THEN json_loads(json_doc) ELSE Ok(<<json_doc>>) IN
    IF loaded.err # "None" THEN loaded
    ELSE LET doc == loaded.val[1] IN
         IF IsNone(doc) \/ IsNumeric(doc) \/ doc.k = "entity" THEN Ok(<<doc>>)
         ELSE IF doc.k = "array" THEN CollectArray([i \in 1..Len(doc.s) |-> from_json(cls, doc.s[i])])
         ELSE from_dict(cls, doc)

\* ------------------------------------------------------------------------
\* Entity.__eq__, __ne__, __hash__: At(ref, obj) is the object obj at the
\* reference ref; x is y compares the references
\* ------------------------------------------------------------------------
At(ref, obj) == [ref |-> ref, obj |-> obj]

\* mutant: the identifiers are compared even when they are None
Entity__eq___IdsOnly(a, b) == Attrs(a.obj)._id = Attrs(b.obj)._id

Entity__eq__(a, b) ==
    IF ~IsNone(Attrs(a.obj)._id) THEN Attrs(a.obj)._id = Attrs(b.obj)._id
    ELSE a.ref = b.ref

Entity__ne__(a, b) == ~Entity__eq__(a, b)

\* hash(self._id), else the default hash, which is that of the reference
Entity__hash__(a) ==
    IF ~IsNone(Attrs(a.obj)._id) THEN [of |-> "_id", v |-> Attrs(a.obj)._id.s[1]]
    ELSE [of |-> "object", v |-> a.ref]

\* ------------------------------------------------------------------------
\* Inputs
\* ------------------------------------------------------------------------
\* ascending lists of at most MaxList values, the descending list of all the
\* values and one list with a repetition
CountLists(S) ==
    {q \in SeqsUpTo(S, MaxList) : \A i, j \in 1..Len(q) : i < j => q[i] < q[j]}
        \cup {[i \in 1..Cardinality(S) |-> CHOOSE m \in S : Cardinality({l \in S : l > m}) = i - 1]}
        \cup {<<n, n>> : n \in {m \in S : \A l \in S : m <= l}}

NumberSatellitesInputs ==
    {NoneV} \cup {Num(n) : n \in 0..MaxCount} \cup {ListV(q) : q \in CountLists(1..MaxCount)}

NumberPlanesInputs ==
    {NoneV} \cup {Num(n) : n \in 1..(MaxCount + 1)} \cup {ListV(q) : q \in CountLists(1..MaxCount)}

RelativeSpacingInputs ==
    {NoneV} \cup {Num(n) : n \in 0..(MaxCount - 1)} \cup {ListV([i \in 1..MaxCount |-> i - 1])}

SatelliteIntervalInputs == {NoneV, ListV(<<5, 10>>)}

SunSynchronous705 == Orbit("SUN_SYNCHRONOUS", Num(705), NoneV, NoneV, NoneV, NoneV, NoneV, NoneV, NoneV, NoneV)

Keplerian500 == Orbit("KEPLERIAN", Num(500), Num(45), NoneV, Rat(1, 10), Num(90), NoneV, NoneV, NoneV, NoneV)

RangedOrbit == Orbit("circular", ListV(<<500, 600>>), SSO, NoneV, NoneV, NoneV, NoneV, NoneV, NoneV, NoneV)

TemplateLists == {[i \in 1..n |-> Satellite(i, NoOrbit)] : n \in 0..MaxTemplates} \cup {<<Satellite(1, Keplerian500)>>}

StationAgencies == {NoAgency, Agency("None"), Agency("GOVERNMENT"), Agency("COMMERCIAL")}

NetworkAgencies == {NoAgency, Agency("None"), Agency("government"), Agency("ACADEMIC")}

\* pools of at most MaxStations stations named 1, 2, ...
StationPools ==
    UNION {{[i \in 1..n |-> GroundStation(i, a[i])] : a \in [1..n -> StationAgencies]} : n \in 0..MaxStations}

NumberStationsInputs ==
    {NoneV} \cup {Num(n) : n \in 0..(MaxStations + 1)} \cup {ListV(q) : q \in CountLists(1..MaxCount)}

\* the constellation of example.py
ExampleConstellation == Constellation("DELTA_HOMOGENOUS", ListV(<<1, 2>>), ListV(<<1, 2>>), NoneV, NoneV, SunSynchronous705, FALSE, <<>>, 0)

\* constellations with scalar fields
ScalarEntries ==
    {Constellation(type, Num(n), Num(p), NoneV, NoneV, SunSynchronous705, FALSE, <<>>, 0) :
        type \in {"DELTA_HOMOGENOUS", "TRAIN"}, n \in 1..2, p \in 1..2}

\* constellations with bound satellites and an identifier
BoundEntries ==
    {Constellation("DELTA_HOMOGENOUS", Num(n), Num(1), NoneV, NoneV, SunSynchronous705, TRUE, <<Satellite(1, NoOrbit)>>, 1) :
        n \in 1..2}

DesignSpaceConstellations ==
    {<<c>> : c \in ScalarEntries \cup BoundEntries \cup
                {ExampleConstellation,
                 Constellation("DELTA_HETEROGENEOUS", ListV(<<1, 2>>), NoneV, NoneV, NoneV, SunSynchronous705, FALSE, <<>>, 0),
                 Constellation("AD_HOC", ListV(<<1, 2>>), ListV(<<1, 2>>), NoneV, NoneV, SunSynchronous705, FALSE, <<>>, 0),
                 Constellation("PRECESSING", Num(1), ListV(<<2>>), NoneV, NoneV, SunSynchronous705, FALSE, <<>>, 0)}}
    \cup {<<a, b>> : a \in ScalarEntries \cup BoundEntries, b \in ScalarEntries \cup BoundEntries}

DesignSpaceNetworks ==
    {<<GroundNetwork(a, n, FALSE, <<>>, 0)>> :
        a \in {NoAgency, Agency("GOVERNMENT")}, n \in {Num(1), Num(2), ListV(<<1, 2>>)}}
    \cup {<<GroundNetwork(NoAgency, Num(1), FALSE, <<>>, 0), GroundNetwork(Agency("GOVERNMENT"), n, FALSE, <<>>, 0)>> :
        n \in {Num(1), NoneV}}

\* pools in which the stations with an even name belong to a government agency
DesignSpaceStations ==
    {[i \in 1..n |-> GroundStation(i, IF i % 2 = 0 THEN Agency("GOVERNMENT") ELSE NoAgency)] : n \in 0..MaxStations}

\* end points of a range
RangeValues == {Num(n) : n \in 0..MaxValue}

NumberStepsInputs == {NoneV} \cup {Num(k) : k \in (-1)..MaxSteps}

StepSizeInputs == {NoneV, Num(0), Num(1), Num(2), Rat(1, 2), Num(-1)}

\* the receivers of to_dict: entities of every class of the codec model, with
\* their fields set and unset, an empty identifier, a list holding None and
\* a map holding None
Entities ==
    LET Ids == {NoneV, Text("id1")}
        Names == {NoneV, Text("n")}
        Numbers == {NoneV, Num(5)}
        Epsilons == {NoneV, Array(<<Num(1), Num(2)>>), Array(<<Num(1), NoneV>>), Dict([a |-> Num(1), b |-> NoneV])}
        SomeAgency == Agency__init__(Text("government"), Text("n"), Text("a"), Text("id1"))
        Orientations == {DefaultOrientation, Orientation__init__(Text("XYZ"), Num(5), Num(5), Num(5), Num(5), Text("id1"))}
        FieldsOfView == {DefaultFieldOfView, FieldOfView__init__(Text("CONICAL"), Num(30), Num(5), Num(5), Text("id1"))}
    IN  {Entity__init__(_id, _type) : _id \in Ids \cup {Text("")}, _type \in {NoneV, Text("Entity")}}
        \cup {Agency__init__(agencyType, name, acronym, _id) : agencyType \in {NoneV, Text("government"), Member("AgencyType", "ACADEMIC")}, name \in Names, acronym \in {NoneV, Text("a")}, _id \in Ids}
        \cup {Orientation__init__(convention, xRotation, yRotation, yRotation, sideLookAngle, _id) : convention \in {Text("XYZ"), Text("SIDE_LOOK")}, xRotation \in Numbers, yRotation \in Numbers, sideLookAngle \in Numbers, _id \in Ids}
        \cup {FieldOfView__init__(sensorGeometry, fullConeAngle, angle, angle, _id) : sensorGeometry \in {Text("CONICAL"), Text("rectangular")}, fullConeAngle \in {NoneV, Num(30)}, angle \in Numbers, _id \in Ids}
        \cup {SearchParameters__init__(maxNFE, epsilons, _id) : maxNFE \in Numbers, epsilons \in Epsilons, _id \in Ids}
        \cup {Instrument__init__(name, name, agency, mass, orientation, fieldOfView, Num(9), mountType, _id, Text("Instrument")) : name \in Names, agency \in {NoneV, SomeAgency}, mass \in Numbers, orientation \in Orientations, fieldOfView \in FieldsOfView, mountType \in {Text("BODY"), Text("mast")}, _id \in Ids}
        \cup {OpticalScanner__init__(name, name, agency, Num(5), orientation, fieldOfView, scanTechnique, fNumber, Num(9), Text("BODY"), _id) : name \in Names, agency \in {NoneV, SomeAgency}, orientation \in Orientations, fieldOfView \in FieldsOfView, scanTechnique \in {NoneV, Text("PUSHBROOM")}, fNumber \in Numbers, _id \in Ids}
        \cup {SyntheticApertureRadar__init__(name, name, agency, Num(5), orientation, pulseWidth, Num(9), Text("BODY"), _id) : name \in Names, agency \in {NoneV, SomeAgency}, orientation \in Orientations, pulseWidth \in Numbers, _id \in Ids}

\* the arguments of from_json: bare scalars, strings, JSON text, decoded
\* entities, lists, the documents of the entities, and documents with a
\* field no class knows, with another type tag and with no type tag
Documents ==
    LET With(d, key, value) == Dict([x \in DOMAIN d.s[1] \cup {key} |-> IF x = key THEN value ELSE d.s[1][x]])
        SomeAgency == Agency__init__(Text("government"), Text("n"), Text("a"), Text("id1"))
        SomeOrientation == Orientation__init__(Text("XYZ"), Num(5), Num(5), Num(5), Num(5), Text("id1"))
        Plain == {Entity__init__(_id, _type) : _id \in {NoneV, Text("id1")}, _type \in {NoneV, Text("Entity")}}
    IN  {NoneV, Num(7), Rat(15, 2), Bool(TRUE), Text("SSO"), JsonText(Num(7)), JsonText(Text("SSO")), SomeAgency, DefaultFieldOfView}
        \cup {Array(<<>>), Array(<<Num(1), Num(2)>>), Array(<<Num(7), to_dict(SomeAgency)>>), Array(<<to_dict(SomeAgency), to_dict(DefaultOrientation), NoneV>>), Array(<<Num(1), Text("SSO")>>)}
        \cup {to_dict(e) : e \in Entities}
        \cup {With(to_dict(e), "@type", Text(t)) : e \in {SomeAgency, SomeOrientation} \cup Plain, t \in Classes \cup {"Satellite"}}
        \cup {With(to_dict(e), "unknownField", Num(1)) : e \in {x \in Entities : ClassOf(x) \in {"Agency", "SearchParameters"}}}
        \cup {Dict([name |-> Text("n")]), Dict([name |-> Text("n"), fNumber |-> Num(5)]), Dict([fullConeAngle |-> Num(5)]), Dict([fieldOfView |-> Num(7)]), Dict([fieldOfView |-> Array(<<Num(1), Num(2)>>)])}

\* ------------------------------------------------------------------------
\* State: the last call, its receiver and arguments, and what it returned
\* ------------------------------------------------------------------------
VARIABLES call, constellation, satellites, network, groundStations, designSpace, ret, range, entity, cls, doc, lhs, rhs, heap, iterated

vars == <<call, constellation, satellites, network, groundStations, designSpace, ret, range, entity, cls, doc, lhs, rhs, heap, iterated>>

Init ==
    /\ call = "none"
    /\ constellation = Constellation("None", Num(1), NoneV, NoneV, NoneV, NoOrbit, FALSE, <<>>, 0)
    /\ satellites = <<>>
    /\ network = GroundNetwork(NoAgency, NoneV, FALSE, <<>>, 0)
    /\ groundStations = <<>>
    /\ designSpace = DesignSpace(<<>>, <<>>, <<>>, <<>>)
    /\ ret = Ok(<<>>)
    /\ iterated = NoOrbit
    /\ heap = [templates |-> <<>>, members |-> <<>>]
    /\ rhs = At("none", NoneV)
    /\ lhs = At("none", NoneV)
    /\ doc = NoneV
    /\ cls = "none"
    /\ entity = NoneV
    /\ range = QuantitativeRange(Num(0), Num(0), NoneV, NoneV)

\* the caller takes the result; the next call starts from fresh arguments
Return ==
    /\ call # "none"
    /\ call' = "none"
    /\ constellation' = Constellation("None", Num(1), NoneV, NoneV, NoneV, NoOrbit, FALSE, <<>>, 0)
    /\ satellites' = <<>>
    /\ network' = GroundNetwork(NoAgency, NoneV, FALSE, <<>>, 0)
    /\ groundStations' = <<>>
    /\ designSpace' = DesignSpace(<<>>, <<>>, <<>>, <<>>)
    /\ ret' = Ok(<<>>)
    /\ iterated' = NoOrbit
    /\ heap' = [templates |-> <<>>, members |-> <<>>]
    /\ rhs' = At("none", NoneV)
    /\ lhs' = At("none", NoneV)
    /\ doc' = NoneV
    /\ cls' = "none"
    /\ entity' = NoneV
    /\ range' = QuantitativeRange(Num(0), Num(0), NoneV, NoneV)

\* for orbit in self, self an Orbit
IterateOrbit ==
    /\ call = "none"
    /\ \E type \in {"None", "KEPLERIAN", "circular", "SUN_SYNCHRONOUS"}, altitude \in {NoneV, Num(500), ListV(<<>>)} \cup {ListV(q) : q \in SeqsUpTo({500, 600}, MaxList)}, inclination \in {NoneV, Num(45), SSO} \cup {ListV(q) : q \in SeqsUpTo({30, 60}, MaxList)}, e \in {NoneV, Rat(1, 10)}, w \in {NoneV, Num(90)}, node \in {NoneV, Num(10)}, set \in BOOLEAN :
        LET self == Orbit(type, altitude, inclination, IF set THEN Num(7000) ELSE NoneV, e, w, node, IF set THEN Num(20) ELSE NoneV, IF set THEN StrV(1) ELSE NoneV, IF set THEN StrV(2) ELSE NoneV) IN
        /\ call' = "Orbit.__iter__"
        /\ iterated' = self
        /\ ret' = Ok(OrbitIter(self))
        /\ UNCHANGED <<constellation, satellites, network, groundStations, designSpace, range, entity, cls, doc, lhs, rhs, heap>>

\* for constellation in self
IterateConstellation ==
    /\ call = "none"
    /\ \E type \in {"DELTA_HOMOGENOUS", "train"}, n \in NumberSatellitesInputs, p \in NumberPlanesInputs, f \in RelativeSpacingInputs, t \in SatelliteIntervalInputs, o \in {NoOrbit, SunSynchronous705, RangedOrbit}, sats \in TemplateLists, bound \in BOOLEAN :
        LET self == Constellation(type, n, p, f, t, o, bound, sats, 0) IN
        /\ IF bound THEN type = "DELTA_HOMOGENOUS" /\ IsNone(f) /\ IsNone(t) /\ o = SunSynchronous705
           ELSE sats = <<>>
        /\ call' = "Constellation.__iter__"
        /\ constellation' = self
        /\ ret' = Ok(ConstellationIter(self))
        /\ UNCHANGED <<satellites, network, groundStations, designSpace, range, entity, cls, doc, lhs, rhs, heap, iterated>>

\* self.generate_delta_orbits()
GenerateDeltaOrbits ==
    /\ call = "none"
    /\ \E n \in NumberSatellitesInputs \cup {Num(i) : i \in 0..MaxDeltaSat}, p \in NumberPlanesInputs \cup {Num(i) : i \in 0..MaxDeltaSat}, f \in RelativeSpacingInputs \cup {Num(i) : i \in 0..(MaxDeltaSat - 1)}, o \in {NoOrbit, SunSynchronous705, Keplerian500, RangedOrbit, Orbit("None", Num(500), Num(45), NoneV, NoneV, NoneV, NoneV, NoneV, NoneV, NoneV), Orbit("CIRCULAR", Num(500), Num(45), NoneV, Rat(3, 10), Num(90), NoneV, NoneV, NoneV, NoneV)} :
        LET self == Constellation("DELTA_HOMOGENOUS", n, p, f, NoneV, o, FALSE, <<>>, 0) IN
        /\ (IsInt(n) /\ IsInt(p) /\ IsInt(f)) \/ o = SunSynchronous705
        /\ call' = "generate_delta_orbits"
        /\ constellation' = self
        /\ ret' = generate_delta_orbits(self)
        /\ UNCHANGED <<satellites, network, groundStations, designSpace, range, entity, cls, doc, lhs, rhs, heap, iterated>>

\* self.generate_constellations(satellites)
GenerateConstellations ==
    /\ call = "none"
    /\ \E type \in ConstellationType \cup {"None"}, n \in NumberSatellitesInputs, p \in NumberPlanesInputs, f \in RelativeSpacingInputs, o \in {SunSynchronous705, RangedOrbit}, sats \in TemplateLists, bound \in BOOLEAN, templates \in TemplateLists :
        LET self == Constellation(type, n, p, f, NoneV, o, bound, sats, 0) IN
        /\ IF bound THEN IsNone(f) /\ o = SunSynchronous705 /\ Len(sats) <= 1
           ELSE sats = <<>>
        /\ IsDelta(type) \/ (IsNone(f) /\ o = SunSynchronous705)
        /\ call' = "generate_constellations"
        /\ constellation' = self
        /\ satellites' = templates
        /\ ret' = generate_constellations(self, templates)
        /\ heap' = [templates |-> TemplatesAfter(self, templates, 1), members |-> MemberObjects(self, templates, 1)]
        /\ UNCHANGED <<network, groundStations, designSpace, range, entity, cls, doc, lhs, rhs, iterated>>

\* for network in self
IterateGroundNetwork ==
    /\ call = "none"
    /\ \E a \in NetworkAgencies, n \in NumberStationsInputs, bound \in BOOLEAN, pool \in DesignSpaceStations :
        LET self == GroundNetwork(a, n, bound, pool, 0) IN
        /\ bound \/ pool = <<>>
        /\ call' = "GroundNetwork.__iter__"
        /\ network' = self
        /\ ret' = Ok(GroundNetworkIter(self))
        /\ UNCHANGED <<constellation, satellites, groundStations, designSpace, range, entity, cls, doc, lhs, rhs, heap, iterated>>

\* self.generate_networks(groundStations)
GenerateNetworks ==
    /\ call = "none"
    /\ \E a \in NetworkAgencies, n \in NumberStationsInputs, bound \in BOOLEAN, pool \in StationPools :
        LET self == GroundNetwork(a, n, bound, IF bound THEN SubSeq(pool, 1, 1) ELSE <<>>, 0) IN
        /\ bound => Len(pool) = 1
        /\ call' = "generate_networks"
        /\ network' = self
        /\ groundStations' = pool
        /\ ret' = generate_networks(self, pool)
        /\ UNCHANGED <<constellation, satellites, designSpace, range, entity, cls, doc, lhs, rhs, heap, iterated>>

\* self.generate_architectures()
GenerateArchitectures ==
    /\ call = "none"
    /\ \E cs \in DesignSpaceConstellations, templates \in TemplateLists, ns \in DesignSpaceNetworks, pool \in DesignSpaceStations :
        LET self == DesignSpace(cs, templates, ns, pool) IN
        \E constellationsIter \in SetOrders(ConstellationForms(self)), groundNetworksIter \in SetOrders(GroundNetworkForms(self)) :
            /\ call' = "generate_architectures"
            /\ designSpace' = self
            /\ ret' = generate_architectures(self, constellationsIter, groundNetworksIter)
            /\ heap' = [templates |-> TemplatesAfterAll(self, constellationsIter, Len(constellationsIter)), members |-> ArchitectureObjects(self, constellationsIter, groundNetworksIter)]
            /\ UNCHANGED <<constellation, satellites, network, groundStations, range, entity, cls, doc, lhs, rhs, iterated>>

\* for value in QuantitativeRange(minValue, maxValue, numberSteps, stepSize)
IterateRange ==
    /\ call = "none"
    /\ \E minValue \in RangeValues, maxValue \in RangeValues, numberSteps \in NumberStepsInputs, stepSize \in StepSizeInputs :
        LET self == QuantitativeRange(minValue, maxValue, numberSteps, stepSize) IN
        /\ call' = "QuantitativeRange.__iter__"
        /\ range' = self
        /\ ret' = QuantitativeRangeIter(self)
        /\ UNCHANGED <<constellation, satellites, network, groundStations, designSpace, entity, cls, doc, lhs, rhs, heap, iterated>>

\* a new iteration of the same range
IterateRangeAgain ==
    /\ call = "QuantitativeRange.__iter__"
    /\ ret' = QuantitativeRangeIter(range)
    /\ UNCHANGED <<call, constellation, satellites, network, groundStations, designSpace, range, entity, cls, doc, lhs, rhs, heap, iterated>>

\* e.to_dict()
ToDict ==
    /\ call = "none"
    /\ \E e \in Entities :
        /\ call' = "Entity.to_dict"
        /\ entity' = e
        /\ ret' = Ok(<<to_dict(e)>>)
        /\ UNCHANGED <<constellation, satellites, network, groundStations, designSpace, range, cls, doc, lhs, rhs, heap, iterated>>

\* type(e).from_json(e.to_dict()), after e.to_dict() has returned
DecodeEncoded ==
    /\ call = "Entity.to_dict"
    /\ call' = "Entity.from_json"
    /\ cls' = ClassOf(entity)
    /\ doc' = ret.val[1]
    /\ ret' = from_json(ClassOf(entity), ret.val[1])
    /\ UNCHANGED <<constellation, satellites, network, groundStations, designSpace, range, entity, lhs, rhs, heap, iterated>>

\* T.from_json(json_doc)
FromJson ==
    /\ call = "none"
    /\ \E T \in Classes, json_doc \in Documents :
        /\ call' = "Entity.from_json"
        /\ cls' = T
        /\ doc' = json_doc
        /\ ret' = from_json(T, json_doc)
        /\ UNCHANGED <<constellation, satellites, network, groundStations, designSpace, range, entity, lhs, rhs, heap, iterated>>

\* DesignSpace(constellations=..., launchers=..., ...): every collection is
\* left out (-2), one entity of its class (-1), or a list of 0.. entities
NewDesignSpace ==
    /\ call = "none"
    /\ \E given \in [DOMAIN CollectionClass -> -2..MaxList] :
        LET Element(key, i) == Object(CollectionClass[key], [name |-> Num(i), _id |-> NoneV, _type |-> Text(CollectionClass[key])])
            args == [key \in DOMAIN CollectionClass |->
                        IF given[key] = -2 THEN NoneV
                        ELSE IF given[key] = -1 THEN Element(key, 1)
                        ELSE Array([i \in 1..given[key] |-> Element(key, i)])]
        IN  /\ call' = "DesignSpace"
            /\ doc' = Dict(args)
            /\ entity' = DesignSpace__init__(args.constellations, args.launchers, args.satellites, args.groundNetworks, args.groundStations, NoneV)
            /\ ret' = Ok(<<>>)
            /\ UNCHANGED <<constellation, satellites, network, groundStations, designSpace, range, cls, lhs, rhs, heap, iterated>>

\* self.to_dict() of the design space just constructed
EncodeDesignSpace ==
    /\ call = "DesignSpace"
    /\ call' = "DesignSpace.to_dict"
    /\ ret' = Ok(<<to_dict(entity)>>)
    /\ UNCHANGED <<constellation, satellites, network, groundStations, designSpace, range, entity, cls, doc, lhs, rhs, heap, iterated>>

\* DesignSpace.from_json(json_doc): every collection is absent (-2), one
\* document of an element (-1), or an array of 0.. such documents
DecodeDesignSpace ==
    /\ call = "none"
    /\ \E given \in [DOMAIN CollectionClass -> -2..MaxList], text \in BOOLEAN :
        LET Element(key, i) == Dict([name |-> Num(i)] @@ ("@type" :> Text(CollectionClass[key])))
            present == {key \in DOMAIN CollectionClass : given[key] # -2}
            json_doc == Dict([key \in present |->
                        IF given[key] = -1 THEN Element(key, 1)
                        ELSE Array([i \in 1..given[key] |-> Element(key, i)])])
        IN  /\ call' = "DesignSpace.from_json"
            /\ cls' = "DesignSpace"
            /\ doc' = json_doc
            /\ ret' = from_json("DesignSpace", IF text THEN JsonText(json_doc) ELSE json_doc)
            /\ UNCHANGED <<constellation, satellites, network, groundStations, designSpace, range, entity, lhs, rhs, heap, iterated>>

\* E.get(key) of an enumeration class E, for strings in several cases,
\* members, values that are no strings, and lists
GetMember ==
    /\ call = "none"
    /\ \E E \in {"AgencyType", "CommunicationBand", "ObjectiveType", "MountType", "SensorGeometry"} :
       \E key \in {Text("government"), Text("Government"), Text("GOVERNMENT"), Text("x"), Text("X"), Text("max"), Text("mast"), Text("bogus"), Text(""), NoneV, Num(5), Bool(TRUE), Member("AgencyType", "ACADEMIC"), Member("CommunicationBand", "X"), Member("ObjectiveType", "MIN"), Member("MountType", "BODY"), Array(<<>>), Array(<<Text("government"), Text("bogus")>>), Array(<<Text("x"), Num(5)>>), Array(<<Text("max"), Member("ObjectiveType", "MIN")>>), Array(<<Text("mast")>>)} :
        /\ call' = "Enum.get"
        /\ cls' = E
        /\ doc' = key
        /\ ret' = Ok(<<CASE E = "AgencyType" -> AgencyType_get(key)
                         [] E = "CommunicationBand" -> CommunicationBand_get(key)
                         [] E = "ObjectiveType" -> ObjectiveType_get(key)
                         [] OTHER -> EnumEntity_get(E, key)>>)
        /\ UNCHANGED <<constellation, satellites, network, groundStations, designSpace, range, entity, lhs, rhs, heap, iterated>>

\* a == b and a != b for plain entities and agencies with and without
\* identifier; one reference holds one object
Compare ==
    /\ call = "none"
    /\ LET Compared == {Entity__init__(_id, Text("Entity")) : _id \in {NoneV, Text("id1"), Text("id2")}} \cup {Agency__init__(NoneV, name, NoneV, _id) : name \in {Text("n"), Text("m")}, _id \in {NoneV, Text("id1"), Text("id2")}}
       IN \E ra \in {"r1", "r2"}, rb \in {"r1", "r2"}, oa \in Compared, ob \in Compared :
        /\ ra = rb => oa = ob
        /\ call' = "Entity.__eq__"
        /\ lhs' = At(ra, oa)
        /\ rhs' = At(rb, ob)
        /\ ret' = Ok(<<Bool(Entity__eq__(At(ra, oa), At(rb, ob))), Bool(Entity__ne__(At(ra, oa), At(rb, ob)))>>)
        /\ UNCHANGED <<constellation, satellites, network, groundStations, designSpace, range, entity, cls, doc, heap, iterated>>

NextConstellation == IterateOrbit \/ IterateConstellation \/ GenerateDeltaOrbits \/ GenerateConstellations \/ Return

SpecConstellation == Init /\ [][NextConstellation]_vars

NextGround == IterateGroundNetwork \/ GenerateNetworks \/ Return

SpecGround == Init /\ [][NextGround]_vars

NextMission == GenerateArchitectures \/ Return

SpecMission == Init /\ [][NextMission]_vars

NextUtil == NewDesignSpace \/ EncodeDesignSpace \/ DecodeDesignSpace \/ IterateRange \/ IterateRangeAgain \/ ToDict \/ DecodeEncoded \/ FromJson \/ GetMember \/ Compare \/ Return

SpecUtil == Init /\ [][NextUtil]_vars

Next == NewDesignSpace \/ EncodeDesignSpace \/ DecodeDesignSpace \/ ToDict \/ DecodeEncoded \/ FromJson \/ GetMember \/ Compare \/ IterateRange \/ IterateRangeAgain \/ IterateOrbit \/ IterateConstellation \/ GenerateDeltaOrbits \/ GenerateConstellations \/ IterateGroundNetwork \/ GenerateNetworks \/ GenerateArchitectures \/ Return

Spec == Init /\ [][Next]_vars

\* ------------------------------------------------------------------------
\* Properties
\* ------------------------------------------------------------------------
\* the design space of example.py: one template, one station without agency
ExampleDesignSpace ==
    DesignSpace(<<ExampleConstellation>>, <<Satellite(1, NoOrbit)>>,
                <<GroundNetwork(NoAgency, Num(1), FALSE, <<>>, 0)>>,
                <<GroundStation(1, NoAgency)>>)

\* architecture a is built from the combination numberSatellites = n, numberPlanes = p
ArchitectureOf(a, n, p) ==
    /\ Len(a.constellation) >= 1
    /\ \A k \in 1..Len(a.constellation) :
        /\ a.constellation[k].numberSatellites = Num(n)
        /\ a.constellation[k].numberPlanes = Num(p)

\* C1: the design space of the end-to-end scenario (numberSatellites and
\* numberPlanes in {1,2}, sun-synchronous orbit at 705 km, one template, one
\* network of one station, one station without agency) yields exactly three
\* architectures, one for each of (1,1), (2,1), (2,2), and none for (1,2).
C1_ExampleYieldsThree ==
    (call = "generate_architectures" /\ designSpace = ExampleDesignSpace) =>
        /\ ret.err = "None"
        /\ Len(ret.val) = 3
        /\ \A np \in {<<1, 1>>, <<2, 1>>, <<2, 2>>} :
            Cardinality({i \in 1..Len(ret.val) : ArchitectureOf(ret.val[i], np[1], np[2])}) = 1
        /\ \A i \in 1..Len(ret.val) : ~ArchitectureOf(ret.val[i], 1, 2)

C1_Witness ==
    /\ call = "generate_architectures"
    /\ designSpace = ExampleDesignSpace
    /\ Len(ret.val) = 3

\* number of constellations generate_constellations returns over all iterated forms
TotalConstellations(self) ==
    LET forms == ConstellationForms(self) IN
    Len(Flatten([i \in 1..Len(forms) |-> generate_constellations(forms[i], self.satellites).val]))

\* number of networks generate_networks returns over all iterated forms
TotalNetworks(self) ==
    LET forms == GroundNetworkForms(self) IN
    Len(Flatten([i \in 1..Len(forms) |-> generate_networks(forms[i], self.groundStations).val]))

\* C2: every architecture holds exactly one concrete constellation and exactly
\* one concrete ground network, and the number of architectures is the number
\* of generated constellations times the number of generated networks.
C2_CartesianProduct ==
    (call = "generate_architectures" /\ ret.err = "None") =>
        /\ \A i \in 1..Len(ret.val) :
            Len(ret.val[i].constellation) = 1 /\ Len(ret.val[i].groundNetwork) = 1
        /\ Len(ret.val) = TotalConstellations(designSpace) * TotalNetworks(designSpace)

\* the candidate values of the five iterated fields of a constellation, in
\* the order numberSatellites, numberPlanes, relativeSpacing,
\* satelliteInterval, orbit
Candidates(self) ==
    <<IterOrSelf(self.numberSatellites), IterOrSelf(self.numberPlanes),
      IterOrSelf(self.relativeSpacing), IterOrSelf(self.satelliteInterval)>>

CandidateOrbits(self) == IF self.orbit.isNone THEN <<NoOrbit>> ELSE OrbitIter(self.orbit)

\* the index tuples whose values satisfy numberPlanes <= numberSatellites and
\* relativeSpacing < numberPlanes, each when both of its values are defined
ValidTuples(self) ==
    LET c == Candidates(self) IN
    {t \in (1..Len(c[1])) \X (1..Len(c[2])) \X (1..Len(c[3])) \X (1..Len(c[4]))
            \X (1..Len(CandidateOrbits(self))) :
        /\ (IsNone(c[1][t[1]]) \/ IsNone(c[2][t[2]])
            \/ IntOf(c[2][t[2]]) <= IntOf(c[1][t[1]]))
        /\ (IsNone(c[3][t[3]]) \/ IsNone(c[2][t[2]])
            \/ IntOf(c[3][t[3]]) < IntOf(c[2][t[2]]))}

\* t comes before u in the order of the Cartesian product
ProductBefore(t, u) ==
    \E i \in 1..5 : t[i] < u[i] /\ \A j \in 1..(i - 1) : t[j] = u[j]

\* C3: iterating a constellation without bound satellites yields exactly one
\* constellation for every tuple of the product numberSatellites x numberPlanes
\* x relativeSpacing x satelliteInterval x orbit with numberPlanes <=
\* numberSatellites and relativeSpacing < numberPlanes (each when both values
\* are defined), in the order of the product; the other tuples are dropped
\* without error and a scalar field counts as a one-element sequence.
C3_IterationIsFilteredProduct ==
    (call = "Constellation.__iter__" /\ ~constellation.bound) =>
        LET c == Candidates(constellation)
            orbits == CandidateOrbits(constellation)
            valid == ValidTuples(constellation)
        IN  /\ ret.err = "None"
            /\ Len(ret.val) = Cardinality(valid)
            /\ \A t \in valid :
                LET k == ret.val[1 + Cardinality({u \in valid : ProductBefore(u, t)})] IN
                /\ k.constellationType = constellation.constellationType
                /\ k.numberSatellites = c[1][t[1]]
                /\ ~IsNone(c[2][t[2]]) => k.numberPlanes = c[2][t[2]]
                /\ ~IsNone(c[3][t[3]]) => k.relativeSpacing = c[3][t[3]]
                /\ IsNone(c[4][t[4]]) => IsNone(k.satelliteInterval)
                /\ ~IsNone(c[4][t[4]]) => k.satelliteInterval = StrV(IntOf(c[4][t[4]]))
                /\ k.orbit = orbits[t[5]]
                /\ ~k.bound

C3_Witness ==
    /\ call = "Constellation.__iter__"
    /\ ~constellation.bound
    /\ constellation.numberSatellites.k = "list"
    /\ constellation.relativeSpacing.k = "list"
    /\ Len(ret.val) >= 2
    /\ Len(ret.val) < Len(IterOrSelf(constellation.numberSatellites))
            * Len(IterOrSelf(constellation.numberPlanes))
            * Len(IterOrSelf(constellation.relativeSpacing))
            * Len(IterOrSelf(constellation.satelliteInterval))
            * Len(CandidateOrbits(constellation))

\* C4: for a DELTA_HOMOGENOUS constellation, whose fields may be ranged,
\* generate_constellations returns one constellation for every pair of a valid
\* combination and a template satellite; its satellites are numberSatellites
\* copies of the template and copy i carries orbit i of the Walker-Delta
\* pattern computed from the parameters of that combination.
C4_HomogeneousPerCombinationAndTemplate ==
    (/\ call = "generate_constellations"
     /\ constellation.constellationType = "DELTA_HOMOGENOUS"
     /\ ~constellation.bound
     /\ ~IsNone(constellation.numberSatellites)) =>
        LET forms == ConstellationIter(constellation) IN
        /\ ret.err = "None"
        /\ Len(ret.val) = Len(forms) * Len(satellites)
        /\ \A c \in 1..Len(forms), t \in 1..Len(satellites) :
            LET k == ret.val[(c - 1) * Len(satellites) + t]
                orbits == generate_delta_orbits(forms[c]).val
            IN  /\ k.numberSatellites = forms[c].numberSatellites
                /\ k.numberPlanes = forms[c].numberPlanes
                /\ Len(k.satellites) = IntOf(forms[c].numberSatellites)
                /\ \A i \in 1..Len(k.satellites) :
                    /\ k.satellites[i].name = satellites[t].name
                    /\ k.satellites[i].orbit = orbits[i]

RECURSIVE Binomial(_, _)
Binomial(n, r) ==
    IF r = 0 THEN 1 ELSE IF n = 0 THEN 0 ELSE Binomial(n - 1, r - 1) + Binomial(n - 1, r)

RECURSIVE Sum(_)
Sum(q) == IF Len(q) = 0 THEN 0 ELSE Head(q) + Sum(Tail(q))

\* C5: for a DELTA_HETEROGENEOUS constellation and k template satellites,
\* generate_constellations completes without error and returns, for every
\* valid combination with numberSatellites = N, one constellation per
\* combination with replacement of N of the templates: C(k + N - 1, N) of them.
C5_HeterogeneousCombinations ==
    (/\ call = "generate_constellations"
     /\ constellation.constellationType = "DELTA_HETEROGENEOUS"
     /\ ~constellation.bound
     /\ ~IsNone(constellation.numberSatellites)) =>
        LET forms == ConstellationIter(constellation) IN
        /\ ret.err = "None"
        /\ Len(ret.val) = Sum([c \in 1..Len(forms) |->
                Binomial(Len(satellites) + IntOf(forms[c].numberSatellites) - 1,
                         IntOf(forms[c].numberSatellites))])

Unsupported == {"PRECESSING", "AD_HOC", "TRAIN"}

\* every constellation of the design space has an unsupported type
OnlyUnsupported(self) ==
    /\ self.constellations # <<>>
    /\ \A i \in 1..Len(self.constellations) :
        self.constellations[i].constellationType \in Unsupported

\* C6: generate_constellations of a PRECESSING, AD_HOC or TRAIN
\* constellation always fails with the unsupported-type error and never
\* returns an empty list, and when such a constellation is in a design space
\* generate_architectures passes the same error to its caller.
C6_UnsupportedAlwaysFails ==
    /\ (call = "generate_constellations" /\ constellation.constellationType \in Unsupported) =>
            ret.err = "NotImplementedError"
    /\ (call = "generate_architectures" /\ OnlyUnsupported(designSpace)) =>
            ret.err = "NotImplementedError"

\* the candidate values of numberStations are counts
CountsOnly(self) ==
    LET ns == IterOrSelf(self.numberStations) IN
    \A j \in 1..Len(ns) : IsInt(ns[j]) /\ IntOf(ns[j]) >= 0

\* the stations of the pool that pass the agency filter of the network
FilteredPool(self, pool) == {pool[i] : i \in {j \in 1..Len(pool) : ValidStation(self, pool[j])}}

\* for each value n of numberStations, in order, the result holds one network
\* per n-element subset of the filtered pool
OnePerCombination(self, pool, networks) ==
    LET ns == IterOrSelf(self.numberStations)
        filtered == FilteredPool(self, pool)
        count(j) == Binomial(Cardinality(filtered), IntOf(ns[j]))
        offset(j) == Sum([i \in 1..(j - 1) |-> count(i)])
    IN  /\ Len(networks) = offset(Len(ns) + 1)
        /\ \A j \in 1..Len(ns) : \A x \in 1..count(j) :
            LET g == networks[offset(j) + x] IN
            /\ g.numberStations = ns[j]
            /\ g.agency = self.agency
            /\ g.bound
            /\ Len(g.groundStations) = IntOf(ns[j])
            /\ Cardinality(Range(g.groundStations)) = IntOf(ns[j])
            /\ Range(g.groundStations) \subseteq filtered
            /\ \A y \in 1..count(j) :
                y # x => Range(networks[offset(j) + y].groundStations) # Range(g.groundStations)

\* C7: generate_networks returns, for each value n of the numberStations
\* sequence of the network, exactly one network per n-element combination of
\* the agency-filtered pool: numberStations = n, n distinct stations, no
\* combination twice and none when n exceeds the size of the filtered pool.
C7_OneNetworkPerCombination ==
    (call = "generate_networks" /\ CountsOnly(network)) =>
        ret.err = "None" /\ OnePerCombination(network, groundStations, ret.val)

\* C7 (amended): the same, for a network whose ground stations are not
\* already bound; a network with bound stations is not expanded over its
\* numberStations sequence.
C7_OneNetworkPerCombinationUnbound ==
    (call = "generate_networks" /\ ~network.bound /\ CountsOnly(network)) =>
        ret.err = "None" /\ OnePerCombination(network, groundStations, ret.val)

C7_Witness ==
    /\ call = "generate_networks"
    /\ ~network.bound
    /\ network.numberStations.k = "list"
    /\ Len(ret.val) >= 3
    /\ Cardinality(FilteredPool(network, groundStations)) < Len(groundStations)
    /\ \E i \in 1..Len(ret.val) : Len(ret.val[i].groundStations) = 2

\* the network puts no constraint on the agency of its stations
Unconstrained(agency) == agency.isNone \/ agency.agencyType = "None"

\* C8: every station of a returned network has the agency type of the agency
\* of the network, and when the network has no agency or an agency without
\* agency type every station of the pool is eligible (so each appears in some
\* returned network of n stations when n is between 1 and the pool size),
\* the stations without agency included.
C8_AgencyFilter ==
    (call = "generate_networks" /\ ~network.bound /\ IsInt(network.numberStations)
            /\ ret.err = "None") =>
        /\ ~Unconstrained(network.agency) =>
            \A i \in 1..Len(ret.val) : \A j \in 1..Len(ret.val[i].groundStations) :
                /\ ~ret.val[i].groundStations[j].agency.isNone
                /\ ret.val[i].groundStations[j].agency.agencyType = network.agency.agencyType
        /\ (/\ Unconstrained(network.agency)
            /\ IntOf(network.numberStations) >= 1
            /\ IntOf(network.numberStations) <= Len(groundStations)) =>
            \A s \in 1..Len(groundStations) :
                \E i \in 1..Len(ret.val) : groundStations[s] \in Range(ret.val[i].groundStations)

\* the example of the Walker-Delta pattern: 4 satellites, 2 planes, spacing 0
FourTwoZero(self) ==
    /\ self.numberSatellites = Num(4)
    /\ self.numberPlanes = Num(2)
    /\ self.relativeSpacing = Num(0)
    /\ ~self.orbit.isNone
    /\ IsInt(self.orbit.altitude)

Degrees(q) == [i \in 1..Len(q) |-> Num(q[i])]

PlanesExceedSatellites(self) ==
    LET ns == IterOrSelf(self.numberSatellites)
        ps == IterOrSelf(self.numberPlanes)
    IN \A i \in 1..Len(ns), j \in 1..Len(ps) :
        IsInt(ns[i]) /\ IsInt(ps[j]) /\ IntOf(ps[j]) > IntOf(ns[i])

\* C10: when every candidate numberPlanes exceeds every candidate
\* numberSatellites, generate_constellations returns an empty sequence and no
\* error, for every constellation type and whether or not satellites are bound.
C10_EmptyWhenPlanesExceed ==
    (call = "generate_constellations" /\ PlanesExceedSatellites(constellation)) =>
        ret = Ok(<<>>)

\* C10 (amended): the same for the DELTA_HOMOGENOUS and DELTA_HETEROGENEOUS
\* constellations whose satellites are not bound; a PRECESSING, AD_HOC or
\* TRAIN constellation gets the unsupported-type error instead.
C10_EmptyWhenPlanesExceedDelta ==
    (call = "generate_constellations" /\ PlanesExceedSatellites(constellation)) =>
        /\ (IsDelta(constellation.constellationType) /\ ~constellation.bound) =>
                ret = Ok(<<>>)
        /\ constellation.constellationType \in Unsupported =>
                ret.err = "NotImplementedError"

C10_Witness ==
    /\ call = "generate_constellations"
    /\ PlanesExceedSatellites(constellation)
    /\ constellation.constellationType = "DELTA_HOMOGENOUS"
    /\ ~constellation.bound
    /\ constellation.numberSatellites.k = "list"
    /\ Len(satellites) >= 1
    /\ ret = Ok(<<>>)

\* q is strictly increasing or strictly decreasing
StrictlyMonotonic(q) ==
    \/ \A i \in 1..(Len(q) - 1) : RatLess(q[i], q[i + 1])
    \/ \A i \in 1..(Len(q) - 1) : RatLess(q[i + 1], q[i])

\* C11: a QuantitativeRange with numberSteps = k iterates over exactly k
\* values, strictly monotonic, the first equal to minValue and the last to
\* maxValue, for k = 1, k = 0 and minValue = maxValue as well.
C11_NumberStepsValues ==
    (/\ call = "QuantitativeRange.__iter__"
     /\ ~IsNone(range.numberSteps)
     /\ IntOf(range.numberSteps) >= 0) =>
        /\ ret.err = "None"
        /\ Len(ret.val) = IntOf(range.numberSteps)
        /\ StrictlyMonotonic(ret.val)
        /\ Len(ret.val) > 0 =>
            ret.val[1] = range.minValue /\ ret.val[Len(ret.val)] = range.maxValue

\* C11 (amended): with numberSteps = k >= 2 and minValue # maxValue the
\* iteration yields exactly k values, strictly monotonic, the first equal to
\* minValue and the last to maxValue; with minValue = maxValue it yields k
\* times that value; with k = 1 it yields minValue alone; k = 0 counts as
\* numberSteps not given.
C11_NumberStepsValuesFromTwo ==
    (/\ call = "QuantitativeRange.__iter__"
     /\ ~IsNone(range.numberSteps)
     /\ IntOf(range.numberSteps) >= 0) =>
        LET k == IntOf(range.numberSteps) IN
        /\ k >= 1 =>
            /\ ret.err = "None"
            /\ Len(ret.val) = k
            /\ ret.val[1] = range.minValue
        /\ k >= 2 => ret.val[k] = range.maxValue
        /\ (k >= 2 /\ range.minValue # range.maxValue) => StrictlyMonotonic(ret.val)
        /\ (k >= 1 /\ range.minValue = range.maxValue) =>
            \A i \in 1..k : ret.val[i] = range.minValue
        /\ k = 0 =>
            ret = QuantitativeRangeIter(
                    QuantitativeRange(range.minValue, range.maxValue, NoneV, range.stepSize))

C11_Witness ==
    /\ call = "QuantitativeRange.__iter__"
    /\ range.numberSteps = Num(3)
    /\ range.minValue = Num(0)
    /\ range.maxValue = Num(1)
    /\ ret.val = <<Num(0), Rat(1, 2), Num(1)>>

\* minValue + i*stepSize for i = 0..floor((maxValue - minValue)/stepSize)
StepValues(self) ==
    LET last == RatFloor(RatDiv(RatSub(self.maxValue, self.minValue), self.stepSize)) IN
    [i \in 1..(last + 1) |-> RatAdd(self.minValue, RatMul(Num(i - 1), self.stepSize))]

\* the same range with one field replaced
WithoutStepSize(self) == QuantitativeRange(self.minValue, self.maxValue, self.numberSteps, NoneV)

\* a new iteration of the same range yields the same sequence
SameOnRestart ==
    [][(call = "QuantitativeRange.__iter__" /\ call' = call) => (ret' = ret /\ range' = range)]_vars

Populated(e) == \A f \in DOMAIN Attrs(e) : ~IsNone(Attrs(e)[f])

\* the decoded value is an entity of the class of e with the attributes of e
Agrees(r, e) == r.err = "None" /\ r.val = <<e>>

\* C13: for every entity e with all optional fields populated (identifier
\* included), type(e).from_json(e.to_dict()) reproduces every field of e.
C13_RoundTrip ==
    (call = "Entity.from_json" /\ ~IsNone(entity) /\ Populated(entity)) => Agrees(ret, entity)

RECURSIVE HasNull(_)
\* a null at some depth of a document
HasNull(v) ==
    CASE v.k = "none" -> TRUE
      [] v.k = "array" -> \E i \in 1..Len(v.s) : HasNull(v.s[i])
      [] v.k = "dict" -> \E key \in DOMAIN v.s[1] : HasNull(v.s[1][key])
      [] OTHER -> FALSE

RECURSIVE HasPrivateKey(_)
\* a key _id or _type at some depth of a document
HasPrivateKey(v) ==
    CASE v.k = "array" -> \E i \in 1..Len(v.s) : HasPrivateKey(v.s[i])
      [] v.k = "dict" -> \/ DOMAIN v.s[1] \cap {"_id", "_type"} # {}
                         \/ \E key \in DOMAIN v.s[1] : HasPrivateKey(v.s[1][key])
      [] OTHER -> FALSE

\* C14: the document that to_dict returns holds no null at any depth, and
\* the identifier and the type appear only under @id and @type, never under
\* _id or _type.
C14_NoNullReservedKeys ==
    call = "Entity.to_dict" => (~HasNull(ret.val[1]) /\ ~HasPrivateKey(ret.val[1]))

\* a bare scalar (number, boolean, string, null) or a decoded entity
IsBare(v) == v.k \in {"num", "bool", "string", "none", "entity"}

\* C15: from_json returns a bare scalar (a number, a boolean, a string such
\* as "SSO", null) or a decoded entity unchanged and without raising;
\* from_json(from_json(x)) = from_json(x); and a list yields the list of its
\* decoded elements, of the same length.
C15_ScalarsUnchangedIdempotent ==
    call = "Entity.from_json" =>
        /\ IsBare(doc) => ret = Ok(<<doc>>)
        /\ ret.err = "None" /\ from_json(cls, ret.val[1]) = ret
        /\ doc.k = "array" =>
                /\ Len(ret.val[1].s) = Len(doc.s)
                /\ \A i \in 1..Len(doc.s) : Ok(<<ret.val[1].s[i]>>) = from_json(cls, doc.s[i])

\* the document carries the type tag of a class of the model
Tagged(d) == "@type" \in DOMAIN d.s[1] /\ d.s[1]["@type"].k = "string" /\ d.s[1]["@type"].s[1] \in Classes

\* d without key
Without(d, key) == Dict([x \in DOMAIN d.s[1] \ {key} |-> d.s[1][x]])

InstrumentClasses == {"Instrument", "OpticalScanner", "SyntheticApertureRadar"}

\* C16: decoding a document that carries a recognized type tag returns an
\* entity of exactly that type, whichever class's from_json receives it; an
\* instrument document without tag decodes to Instrument; and a field the
\* type does not know is ignored.
C16_TypeDispatch ==
    (call = "Entity.from_json" /\ doc.k = "dict") =>
        /\ Tagged(doc) =>
                /\ ret.err = "None"
                /\ ret.val[1].k = "entity"
                /\ ClassOf(ret.val[1]) = doc.s[1]["@type"].s[1]
                /\ Attrs(ret.val[1])._type = doc.s[1]["@type"]
        /\ ("@type" \notin DOMAIN doc.s[1] /\ cls \in InstrumentClasses) =>
                (ret.err = "None" /\ ret.val[1].k = "entity" /\ ClassOf(ret.val[1]) = "Instrument")
        /\ ret = from_json(cls, Without(doc, "unknownField"))

\* v is a FieldOfView of CONICAL geometry with full cone angle n
IsConical(v, n) ==
    /\ v.k = "entity" /\ ClassOf(v) = "FieldOfView"
    /\ Attrs(v).sensorGeometry = Member("SensorGeometry", "CONICAL")
    /\ Attrs(v).fullConeAngle = n

\* v is a FieldOfView of RECTANGULAR geometry, c degrees across and a along
IsRectangular(v, c, a) ==
    /\ v.k = "entity" /\ ClassOf(v) = "FieldOfView"
    /\ Attrs(v).sensorGeometry = Member("SensorGeometry", "RECTANGULAR")
    /\ Attrs(v).crossTrackFieldOfView = c
    /\ Attrs(v).alongTrackFieldOfView = a

\* [c, a] with two numbers
IsNumericPair(v) == v.k = "array" /\ Len(v.s) = 2 /\ IsNumeric(v.s[1]) /\ IsNumeric(v.s[2])

\* the field of view that the claim gives for the shorthand x
IsShorthandOf(v, x) ==
    /\ IsNumeric(x) => IsConical(v, x)
    /\ IsNumericPair(x) => IsRectangular(v, x.s[1], x.s[2])

\* C17: FieldOfView.from_json, and Instrument.from_json for the fieldOfView
\* field, turn a bare number n into a CONICAL FieldOfView with
\* fullConeAngle = n and a list [c, a] of two numbers into a RECTANGULAR one
\* with crossTrackFieldOfView = c and alongTrackFieldOfView = a.
C17_FieldOfViewShorthand ==
    call = "Entity.from_json" =>
        /\ (cls = "FieldOfView" /\ (IsNumeric(doc) \/ IsNumericPair(doc))) =>
                (ret.err = "None" /\ IsShorthandOf(ret.val[1], doc))
        /\ (cls = "Instrument" /\ doc.k = "dict" /\ "fieldOfView" \in DOMAIN doc.s[1] /\ "@type" \notin DOMAIN doc.s[1]) =>
                (ret.err = "None" /\ IsShorthandOf(Attrs(ret.val[1]).fieldOfView, doc.s[1].fieldOfView))

\* the characters of a string or of an enumeration member
TextOf(key) == key.s[Len(key.s)]

RECURSIVE Parsed(_, _)
\* the value the claim gives for E.get(key)
Parsed(E, key) ==
    IF key.k = "enum" /\ key.s[1] = E THEN key
    ELSE IF key.k = "array" THEN Array([i \in 1..Len(key.s) |-> Parsed(E, key.s[i])])
    ELSE IF key.k \in {"string", "enum"} /\ Upper(TextOf(key)) \in Members(E) THEN Member(E, Upper(TextOf(key)))
    ELSE NoneV

\* C18: get of an enumeration never raises: a string that matches a member
\* case-insensitively gives the member, a member gives itself, any other
\* string or value gives None, and a list gives the list of the same length
\* of the results for its elements.
C18_LenientGet == call = "Enum.get" => ret = Ok(<<Parsed(cls, doc)>>)

\* C19: a == b holds exactly when a has a non-null id equal to the id of b,
\* or a and b are the same object; two distinct entities without id are
\* never equal, whatever their fields; == is reflexive and symmetric, != is
\* its negation, and equal entities have equal hashes.
C19_EqualityPolicy ==
    call = "Entity.__eq__" =>
        LET ida == Attrs(lhs.obj)._id
            idb == Attrs(rhs.obj)._id
        IN  /\ ret.val[1] = Bool((~IsNone(ida) /\ ida = idb) \/ lhs.ref = rhs.ref)
            /\ (lhs.ref # rhs.ref /\ IsNone(ida) /\ IsNone(idb)) => ret.val[1] = Bool(FALSE)
            /\ Entity__eq__(lhs, lhs) /\ Entity__eq__(rhs, rhs)
            /\ Entity__eq__(rhs, lhs) = ret.val[1].s[1]
            /\ ret.val[2] = Bool(~ret.val[1].s[1])
            /\ ret.val[1].s[1] => Entity__hash__(lhs) = Entity__hash__(rhs)

\* two objects without id and with the same fields have been compared, and
\* two objects with the same id and different fields
C19_Witness ==
    /\ call = "Entity.__eq__"
    /\ lhs.ref # rhs.ref
    /\ \/ lhs.obj = rhs.obj /\ IsNone(Attrs(lhs.obj)._id) /\ ret.val[1] = Bool(FALSE)
       \/ lhs.obj # rhs.obj /\ ret.val[1] = Bool(TRUE)

\* C20: generate_architectures emits the architectures in one order, the
\* constellations outer and the ground networks inner, each axis in the
\* order in which the design space lists its entries and their iteration
\* produces them; so every run on the same design space returns the same
\* sequence.
C20_ListingOrder ==
    call = "generate_architectures" =>
        ret = generate_architectures(designSpace, ConstellationForms(designSpace), GroundNetworkForms(designSpace))

\* the generation from some iterated constellation or ground network fails
SomeGenerationFails(self) ==
    LET constellations == ConstellationForms(self)
        networks == GroundNetworkForms(self)
    IN  \/ \E i \in 1..Len(constellations) : generate_constellations(constellations[i], self.satellites).err # "None"
        \/ \E i \in 1..Len(networks) : generate_networks(networks[i], self.groundStations).err # "None"

\* C21: when the construction of any combination fails, generate_architectures
\* raises and the caller receives no architecture at all, none of those
\* built before the failing one either.
C21_AllOrError ==
    (call = "generate_architectures" /\ SomeGenerationFails(designSpace)) =>
        (ret.err # "None" /\ ret.val = <<>>)

\* one entry generates constellations, another one fails, and the call raised
C21_Witness ==
    /\ call = "generate_architectures"
    /\ ret.err = "NotImplementedError"
    /\ \E i \in 1..Len(ConstellationForms(designSpace)) :
            LET r == generate_constellations(ConstellationForms(designSpace)[i], designSpace.satellites)
            IN r.err = "None" /\ Len(r.val) > 0
    /\ \A i \in 1..Len(GroundNetworkForms(designSpace)) :
            generate_networks(GroundNetworkForms(designSpace)[i], designSpace.groundStations).err = "None"
    /\ Len(GroundNetworkForms(designSpace)) > 0

\* ------------------------------------------------------------------------
\* the objects two sequences of references have in common
Shared(q, r) == Range(q) \cap Range(r)

\* C22: no satellite object and no orbit object reachable from one
\* architecture of a generate_architectures result is reachable from another
\* architecture of the same result, also when the two combine the same
\* constellation with different ground networks.
C22_NoSharedObjects ==
    call = "generate_architectures" =>
        \A a, b \in 1..Len(heap.members) :
            a # b => /\ Shared(heap.members[a].satellites, heap.members[b].satellites) = {}
                     /\ Shared(heap.members[a].orbits, heap.members[b].orbits) = {}

\* ------------------------------------------------------------------------
\* a value given for altitude or inclination as a sequence: a list is its
\* elements, anything else (None, a number, a string) is one value
AsSequence(v) == IF v.k = "list" THEN [i \in 1..Len(v.s) |-> Num(v.s[i])] ELSE <<v>>

\* the inclination a concrete orbit shows for the pair (altitude, inclination)
ConcreteInclination(type, altitude, inclination) ==
    IF IsNumber(altitude) /\ (inclination = SSO \/ type = "SUN_SYNCHRONOUS")
    THEN get_sso_inclination(altitude) ELSE inclination

\* C23: iterating an Orbit yields one Orbit per element of the product
\* altitude sequence x inclination sequence, altitude outer; a scalar and a
\* string inclination count as one value; every yielded orbit keeps the
\* other eight fields of the source orbit.
C23_OrbitProduct ==
    call = "Orbit.__iter__" =>
        LET altitudes == AsSequence(iterated.altitude)
            inclinations == AsSequence(iterated.inclination)
        IN  /\ ret.err = "None"
            /\ Len(ret.val) = Len(altitudes) * Len(inclinations)
            /\ \A a \in 1..Len(altitudes) : \A i \in 1..Len(inclinations) :
                LET o == ret.val[(a - 1) * Len(inclinations) + i] IN
                /\ o.altitude = altitudes[a]
                /\ o.inclination = ConcreteInclination(iterated.orbitType, altitudes[a], inclinations[i])
                /\ o.orbitType = iterated.orbitType
                /\ o.semimajorAxis = iterated.semimajorAxis
                /\ o.eccentricity = iterated.eccentricity
                /\ o.periapsisArgument = iterated.periapsisArgument
                /\ o.rightAscensionAscendingNode = iterated.rightAscensionAscendingNode
                /\ o.trueAnomaly = iterated.trueAnomaly
                /\ o.epoch = iterated.epoch
                /\ o.localSolarTimeAscendingNode = iterated.localSolarTimeAscendingNode

\* a range of two altitudes with the string inclination, every other field set
C23_Witness ==
    /\ call = "Orbit.__iter__"
    /\ iterated.altitude = ListV(<<500, 600>>)
    /\ iterated.inclination = SSO
    /\ iterated.orbitType = "KEPLERIAN"
    /\ iterated.eccentricity = Rat(1, 10)
    /\ iterated.epoch = StrV(1)
    /\ Len(ret.val) = 2
    /\ ret.val[2].altitude = Num(600)
    /\ ret.val[2].inclination = get_sso_inclination(Num(600))

\* ------------------------------------------------------------------------
\* numberPlanes <= numberSatellites and relativeSpacing < numberPlanes, each
\* for the values that are set
WithinRanges(c) ==
    /\ (IsInt(c.numberPlanes) /\ IsInt(c.numberSatellites)) => IntOf(c.numberPlanes) <= IntOf(c.numberSatellites)
    /\ (IsInt(c.relativeSpacing) /\ IsInt(c.numberPlanes)) => IntOf(c.relativeSpacing) < IntOf(c.numberPlanes)

\* C24: every Constellation yielded by the iteration of a Constellation or
\* returned by generate_constellations has numberPlanes <= numberSatellites
\* and relativeSpacing < numberPlanes, defaults filled in after the range
\* filter and constellations with bound satellites included.
C24_RangeInvariant ==
    (call \in {"Constellation.__iter__", "generate_constellations"} /\ ret.err = "None") =>
        \A k \in 1..Len(ret.val) : WithinRanges(ret.val[k])

\* ------------------------------------------------------------------------
\* the collection key of the design space in ret or, after the constructor,
\* in entity
Held(key) == IF call = "DesignSpace.from_json" THEN Attrs(ret.val[1])[key] ELSE Attrs(entity)[key]

\* what was given for the collection key: an argument of the constructor or
\* a value of the decoded document, None when it is left out
Given(key) == Get(doc, key, NoneV)

\* v is an entity, or the document of an entity, of class T
IsElement(T, v) ==
    \/ v.k = "entity" /\ ClassOf(v) = T
    \/ v.k = "dict" /\ Get(v, "@type", NoneV) = Text(T)

\* the entity e is what the element v, an entity or its document, stands for
Holds(e, T, v) ==
    /\ e.k = "entity" /\ ClassOf(e) = T
    /\ IF v.k = "entity" THEN e = v ELSE Attrs(e).name = Get(v, "name", NoneV)

\* C25 as stated: a DesignSpace always holds each of its five collections
\* as a list.
C25_AlwaysLists ==
    (call \in {"DesignSpace", "DesignSpace.from_json"}) =>
        \A key \in DOMAIN CollectionClass : Held(key).k = "array"

\* C25 amended: a collection given as one entity of its class is held as a
\* one-element list of it, a collection given as a list of n entities as the
\* list of the same n entities in order, and the encoded form shows such a
\* collection as an array of that length whose elements carry their @type; a
\* collection that is left out is held as None and has no key in the
\* encoded form.
C25_ListsWhenGiven ==
    /\ (call \in {"DesignSpace", "DesignSpace.from_json"}) =>
        /\ call = "DesignSpace.from_json" => ret.err = "None"
        /\ \A key \in DOMAIN CollectionClass :
            LET T == CollectionClass[key] IN
            /\ IsElement(T, Given(key)) =>
                (Held(key).k = "array" /\ Len(Held(key).s) = 1 /\ Holds(Held(key).s[1], T, Given(key)))
            /\ Given(key).k = "array" =>
                (/\ Held(key).k = "array"
                 /\ Len(Held(key).s) = Len(Given(key).s)
                 /\ \A i \in 1..Len(Given(key).s) : Holds(Held(key).s[i], T, Given(key).s[i]))
            /\ IsNone(Given(key)) => IsNone(Held(key))
    /\ call = "DesignSpace.to_dict" =>
        \A key \in DOMAIN CollectionClass :
            IF IsNone(Given(key)) THEN key \notin DOMAIN ret.val[1].s[1]
            ELSE LET shown == Get(ret.val[1], key, NoneV) IN
                 /\ shown.k = "array"
                 /\ Len(shown.s) = (IF Given(key).k = "array" THEN Len(Given(key).s) ELSE 1)
                 /\ \A i \in 1..Len(shown.s) : Get(shown.s[i], "@type", NoneV) = Text(CollectionClass[key])

\* a design space built from one constellation and a list of two satellites,
\* encoded
C25_Witness ==
    /\ call = "DesignSpace.to_dict"
    /\ Given("constellations").k = "entity"
    /\ Given("satellites").k = "array" /\ Len(Given("satellites").s) = 2
    /\ Len(Get(ret.val[1], "constellations", NoneV).s) = 1
    /\ Len(Get(ret.val[1], "satellites", NoneV).s) = 2
    /\ Attrs(entity).satellites = Given("satellites")

\* ------------------------------------------------------------------------
\* generate_delta_orbits returned for numberSatellites N >= 1, P planes,
\* P <= N, and relative spacing F < P
DeltaCase ==
    /\ call = "generate_delta_orbits"
    /\ ret.err = "None"
    /\ IsInt(constellation.numberSatellites) /\ IsInt(constellation.numberPlanes) /\ IsInt(constellation.relativeSpacing)
    /\ 1 <= IntOf(constellation.numberPlanes)
    /\ IntOf(constellation.numberPlanes) <= IntOf(constellation.numberSatellites)
    /\ IntOf(constellation.relativeSpacing) < IntOf(constellation.numberPlanes)

\* ceil(N/P)
CeilDiv(n, p) == IF n % p = 0 THEN n \div p ELSE (n \div p) + 1

\* floor(s / ceil(N/P))
PlaneOf(s) == s \div CeilDiv(IntOf(constellation.numberSatellites), IntOf(constellation.numberPlanes))

\* C26: the right ascension of the ascending node of satellite s is
\* plane(s)*360/P with plane(s) = floor(s / ceil(N/P)); the satellites of one
\* plane have the same value and only P distinct values occur.
C26_RightAscensionByPlane ==
    DeltaCase =>
        /\ \A s \in 0..(Len(ret.val) - 1) :
            ret.val[s + 1].rightAscensionAscendingNode = Rat(PlaneOf(s) * 360, IntOf(constellation.numberPlanes))
        /\ Cardinality({ret.val[i].rightAscensionAscendingNode : i \in 1..Len(ret.val)}) <= IntOf(constellation.numberPlanes)

\* C27: generate_delta_orbits returns exactly numberSatellites orbits, and
\* the true anomaly of satellite s is
\* ((s mod spp)*P + F*plane(s)) * 360 / (spp*P) with spp = ceil(N/P).
C27_TrueAnomaly ==
    DeltaCase =>
        LET N == IntOf(constellation.numberSatellites)
            P == IntOf(constellation.numberPlanes)
            F == IntOf(constellation.relativeSpacing)
            spp == CeilDiv(N, P)
        IN  /\ Len(ret.val) = N
            /\ \A s \in 0..(N - 1) :
                ret.val[s + 1].trueAnomaly = Rat(((s % spp) * P + F * PlaneOf(s)) * 360, spp * P)

\* three satellites in two planes with relative spacing 1: the third
\* satellite, alone in the second plane, is at 90 degrees
C27_Witness ==
    /\ DeltaCase
    /\ constellation.numberSatellites = Num(3)
    /\ constellation.numberPlanes = Num(2)
    /\ constellation.relativeSpacing = Num(1)
    /\ Len(ret.val) = 3
    /\ ret.val[2].trueAnomaly = Num(180)
    /\ ret.val[3].trueAnomaly = Num(90)

\* ------------------------------------------------------------------------
\* Earth radius (6378.14 km) plus altitude, in km
RadiusPlus(altitude) == Rat(637814 + 100 * IntOf(altitude), 100)

\* C28 as stated: every synthesized orbit has the eccentricity and the
\* periapsis argument of the base orbit, unchanged also when the base value
\* is unset, and its semi-major axis is Earth radius plus the base altitude.
C28_BaseElementsUnchanged ==
    (call = "generate_delta_orbits" /\ ret.err = "None") =>
        \A i \in 1..Len(ret.val) :
            /\ ret.val[i].eccentricity = constellation.orbit.eccentricity
            /\ ret.val[i].periapsisArgument = constellation.orbit.periapsisArgument
            /\ ret.val[i].semimajorAxis = RadiusPlus(constellation.orbit.altitude)

\* C28 amended: the eccentricity and the periapsis argument of every
\* synthesized orbit are those of the base orbit where the base orbit has a
\* value and 0 where it has none; the semi-major axis is Earth radius plus
\* the base altitude.
C28_BaseElementsOrZero ==
    (call = "generate_delta_orbits" /\ ret.err = "None") =>
        \A i \in 1..Len(ret.val) :
            /\ ret.val[i].eccentricity = (IF IsNone(constellation.orbit.eccentricity) THEN Num(0) ELSE constellation.orbit.eccentricity)
            /\ ret.val[i].periapsisArgument = (IF IsNone(constellation.orbit.periapsisArgument) THEN Num(0) ELSE constellation.orbit.periapsisArgument)
            /\ ret.val[i].semimajorAxis = RadiusPlus(constellation.orbit.altitude)

\* a sun-synchronous base orbit at 705 km without periapsis argument
C28_Witness ==
    /\ call = "generate_delta_orbits"
    /\ ret.err = "None"
    /\ constellation.orbit.orbitType = "SUN_SYNCHRONOUS"
    /\ IsNone(constellation.orbit.periapsisArgument)
    /\ Len(ret.val) = 2
    /\ ret.val[2].periapsisArgument = Num(0)
    /\ ret.val[2].eccentricity = Num(0)
    /\ ret.val[2].semimajorAxis = Rat(708314, 100)

\* ------------------------------------------------------------------------
\* the member satellite objects of all produced constellations, in order
AllMembers == Flatten([k \in 1..Len(heap.members) |-> heap.members[k].satellites])

\* C29: after generate_constellations returns, every template satellite, its
\* orbit field included, is as it was before the call, and no member
\* satellite object of a produced constellation is a template object or is
\* shared with another member of the same or of another produced
\* constellation.
C29_NoMutationNoAliasing ==
    (call = "generate_constellations" /\ ret.err = "None") =>
        LET members == AllMembers IN
        /\ heap.templates = satellites
        /\ Len(heap.members) = Len(ret.val)
        /\ \A k \in 1..Len(ret.val) : Len(heap.members[k].satellites) = Len(ret.val[k].satellites)
        /\ \A i \in 1..Len(members) :
            /\ \A t \in 1..Len(satellites) : members[i] # TemplateRef(t)
            /\ \A j \in 1..Len(members) : members[i] = members[j] => i = j

\* two constellations of two members each, one from each of two templates
C29_Witness ==
    /\ call = "generate_constellations"
    /\ ret.err = "None"
    /\ Len(satellites) = 2
    /\ Len(ret.val) = 2
    /\ Len(AllMembers) = 4
    /\ ret.val[1].satellites[2].orbit # satellites[1].orbit

\* ------------------------------------------------------------------------
\* the number of satellites that generate_delta_orbits puts in plane q
Population(q) ==
    Cardinality({s \in 0..(IntOf(constellation.numberSatellites) - 1) : plane(constellation, s) = q})

\* C30: when N is not evenly divisible by P (P <= N), each of the planes
\* 0..P-2 receives exactly ceil(N/P) satellites and the final plane P-1
\* receives the remaining satellites, at least one.
C30_OnlyFinalPlaneShort ==
    (DeltaCase /\ IntOf(constellation.numberSatellites) % IntOf(constellation.numberPlanes) # 0) =>
        LET N == IntOf(constellation.numberSatellites)
            P == IntOf(constellation.numberPlanes)
        IN  /\ \A q \in 0..(P - 2) : Population(q) = CeilDiv(N, P)
            /\ Population(P - 1) = N - (P - 1) * CeilDiv(N, P)
            /\ Population(P - 1) >= 1

====
